---- MODULE Spec2Model ----
(***************************************************************************)
(* canvas-chat calculator tool: CalculatorTool.execute and safe_eval       *)
(* (src/src/canvas_chat/plugins/calculator_tool.py).                       *)
(*                                                                         *)
(* An expression is a sequence of lexemes.  ParseEval is the host parser   *)
(* ast.parse(expression, mode="eval") restricted to the lexemes of         *)
(* Lexemes; Eval is the tree walk safe_eval._eval; execute is the tool     *)
(* boundary.  Python objects are records [k, n, d, items]:                 *)
(*   k = "int" | "bool"      the integer n                                 *)
(*   k = "float"             the rational n/d (d > 0), or d = 0:           *)
(*                           n = 1 is inf, n = -1 is -inf, n = 0 is nan    *)
(*   k = "complex"           a complex number (its value is not tracked)   *)
(*   k = "list" | "tuple"    the sequence items                            *)
(* Arithmetic is exact.  A result whose numerator or denominator leaves    *)
(* MaxInt, or that is irrational, is outside the tracked range ("oob");    *)
(* execute is modelled on the inputs whose evaluation stays inside it.     *)
(* FloatMax stands for sys.float_info.max.                                 *)
(***************************************************************************)
EXTENDS Integers, Sequences, FiniteSets, TLC

\* tracked magnitudes: integers, numerators and denominators up to MaxInt,
\* floats up to FloatMax, lists and tuples of up to MaxItems items
MaxInt == 10000
FloatMax == 100
MaxItems == 4

\* lengths of the enumerated expressions (in lexemes), per family
MaxShortLen == 2
MaxArithLen == 4
MaxGroupLen == 5
MaxArgsLen == 4

\* the deepest nesting of parentheses and brackets in an expression
MaxNesting == 3

\* the most arguments of a call of min, max or sum
MaxAggregateLen == 3

\* ------------------------------------------------------------------------
\* Python objects
\* ------------------------------------------------------------------------
NoItems == << >>

PyInt(n) == [k |-> "int", n |-> n, d |-> 1, items |-> NoItems]

PyBool(b) == [k |-> "bool", n |-> IF b THEN 1 ELSE 0, d |-> 1, items |-> NoItems]

PyFloatRaw(n, d) == [k |-> "float", n |-> n, d |-> d, items |-> NoItems]

PyInf == PyFloatRaw(1, 0)

PyNegInf == PyFloatRaw(-1, 0)

PyNaN == PyFloatRaw(0, 0)

PyComplex == [k |-> "complex", n |-> 0, d |-> 1, items |-> NoItems]

PyTuple(xs) == [k |-> "tuple", n |-> 0, d |-> 1, items |-> xs]

PyNone == [k |-> "none", n |-> 0, d |-> 1, items |-> NoItems]

IsIntLike(v) == v.k \in {"int", "bool"}

IsFloat(v) == v.k = "float"

IsReal(v) == v.k \in {"int", "bool", "float"}

IsComplex(v) == v.k = "complex"

IsSeq(v) == v.k \in {"list", "tuple"}

IsNaN(v) == v.k = "float" /\ v.d = 0 /\ v.n = 0

IsInf(v) == v.k = "float" /\ v.d = 0 /\ v.n # 0

IsFinite(v) == IsReal(v) /\ v.d # 0

IsZero(v) == IsFinite(v) /\ v.n = 0

\* ------------------------------------------------------------------------
\* Outcomes of an evaluation step: a value, a raised exception, or a value
\* outside the tracked range
\* ------------------------------------------------------------------------
Ok(v) == [st |-> "ok", v |-> v, exc |-> "", msg |-> "", arg |-> ""]

Raise(exc, msg, arg) == [st |-> "raise", v |-> PyNone, exc |-> exc, msg |-> msg, arg |-> arg]

OutOfRange == [st |-> "oob", v |-> PyNone, exc |-> "", msg |-> "", arg |-> ""]

\* ------------------------------------------------------------------------
\* Exact integer and rational arithmetic
\* ------------------------------------------------------------------------
AbsInt(a) == IF a < 0 THEN -a ELSE a

SignInt(a) == IF a < 0 THEN -1 ELSE IF a = 0 THEN 0 ELSE 1

RECURSIVE Gcd(_, _)
Gcd(a, b) == IF b = 0 THEN a ELSE Gcd(b, a % b)

\* floor(a / b), b # 0
FloorDivInt(a, b) == IF b > 0 THEN a \div b ELSE (-a) \div (-b)

\* Python's a % b on integers: the result has the sign of b
ModInt(a, b) == a - b * FloorDivInt(a, b)

\* a ** e for a >= 0 and e >= 0, or -1 when the result leaves MaxInt
RECURSIVE PowMag(_, _)
PowMag(a, e) ==
    IF e = 0 THEN 1
    ELSE LET p == PowMag(a, e - 1)
         IN  IF p = -1 \/ a > MaxInt \/ p * a > MaxInt THEN -1 ELSE p * a

\* the sign of a ** e
PowSign(a, e) == IF a < 0 /\ e % 2 = 1 THEN -1 ELSE 1

\* the exact q-th root of n >= 0 (q >= 1), or -1 when n has none
RECURSIVE RootFrom(_, _, _)
RootFrom(r, n, q) ==
    LET p == PowMag(r, q)
    IN  IF p = n THEN r
        ELSE IF p = -1 \/ p > n THEN -1
        ELSE RootFrom(r + 1, n, q)

ExactRoot(n, q) == IF q = 1 THEN n ELSE RootFrom(0, n, q)

\* an int object, if it stays in the tracked range
IntResult(n) == IF AbsInt(n) > MaxInt THEN OutOfRange ELSE Ok(PyInt(n))

\* the float n/d (d # 0) of an operation that saturates: beyond FloatMax it
\* is an infinity (float_add, float_sub, float_mul, float_div)
FloatResult(n, d) ==
    LET s == IF d < 0 THEN -1 ELSE 1
        g == Gcd(AbsInt(n), AbsInt(d))
        nn == (s * n) \div g
        dd == (s * d) \div g
    IN  IF dd > MaxInt THEN OutOfRange
        ELSE IF AbsInt(nn) > FloatMax * dd
        THEN Ok(IF nn > 0 THEN PyInf ELSE PyNegInf)
        ELSE IF AbsInt(nn) > MaxInt THEN OutOfRange
        ELSE Ok(PyFloatRaw(nn, dd))

\* the float n/d (d # 0) of an operation that reports a range error
\* (float_pow, int true division, math.*)
FloatChecked(n, d) ==
    LET r == FloatResult(n, d)
    IN  IF r.st = "ok" /\ IsInf(r.v)
        THEN Raise("OverflowError", "Result too large", "")
        ELSE r

\* float(v) for an int or bool v: PyLong_AsDouble
ToFloat(v) ==
    IF v.k = "float" THEN Ok(v)
    ELSE IF AbsInt(v.n) > FloatMax
         THEN Raise("OverflowError", "int too large to convert to float", "")
         ELSE Ok(PyFloatRaw(v.n, 1))

\* ------------------------------------------------------------------------
\* Float arithmetic (operands are float objects, possibly inf or nan)
\* ------------------------------------------------------------------------
FloatNeg(a) == PyFloatRaw(-a.n, a.d)

FloatAdd(a, b) ==
    IF IsNaN(a) \/ IsNaN(b) THEN Ok(PyNaN)
    ELSE IF IsInf(a) THEN (IF IsInf(b) /\ b.n # a.n THEN Ok(PyNaN) ELSE Ok(a))
    ELSE IF IsInf(b) THEN Ok(b)
    ELSE FloatResult(a.n * b.d + b.n * a.d, a.d * b.d)

FloatSub(a, b) == FloatAdd(a, FloatNeg(b))

FloatMul(a, b) ==
    IF IsNaN(a) \/ IsNaN(b) THEN Ok(PyNaN)
    ELSE IF IsInf(a) \/ IsInf(b)
         THEN (IF a.n = 0 \/ b.n = 0 THEN Ok(PyNaN)
               ELSE Ok(IF SignInt(a.n) * SignInt(b.n) > 0 THEN PyInf ELSE PyNegInf))
    ELSE FloatResult(a.n * b.n, a.d * b.d)

\* float_div
FloatTrueDiv(a, b) ==
    IF IsZero(b) THEN Raise("ZeroDivisionError", "float division by zero", "")
    ELSE IF IsNaN(a) \/ IsNaN(b) THEN Ok(PyNaN)
    ELSE IF IsInf(a)
         THEN (IF IsInf(b) THEN Ok(PyNaN)
               ELSE Ok(IF SignInt(a.n) * SignInt(b.n) > 0 THEN PyInf ELSE PyNegInf))
    ELSE IF IsInf(b) THEN Ok(PyFloatRaw(0, 1))
    ELSE FloatResult(a.n * b.d, a.d * b.n)

\* float_floor_div: floor of the quotient, as a float
FloatFloorDiv(a, b) ==
    IF IsZero(b) THEN Raise("ZeroDivisionError", "float floor division by zero", "")
    ELSE IF IsNaN(a) \/ IsNaN(b) \/ IsInf(a) THEN Ok(PyNaN)
    ELSE IF IsInf(b)
         THEN Ok(PyFloatRaw(IF a.n # 0 /\ SignInt(a.n) # SignInt(b.n) THEN -1 ELSE 0, 1))
    ELSE FloatResult(FloorDivInt(a.n * b.d, a.d * b.n), 1)

\* float_rem: the result has the sign of the divisor
FloatMod(a, b) ==
    IF IsZero(b) THEN Raise("ZeroDivisionError", "float modulo by zero", "")
    ELSE IF IsNaN(a) \/ IsNaN(b) \/ IsInf(a) THEN Ok(PyNaN)
    ELSE IF IsInf(b)
         THEN (IF a.n # 0 /\ SignInt(a.n) # SignInt(b.n) THEN Ok(b) ELSE Ok(a))
    ELSE LET q == FloorDivInt(a.n * b.d, a.d * b.n)
         IN  FloatResult(a.n * b.d - q * b.n * a.d, a.d * b.d)

IsIntegral(a) == IsFinite(a) /\ a.d = 1

IsOddIntegral(a) == IsIntegral(a) /\ a.n % 2 = 1

\* a ** w for finite a > 0 (as n/d) and finite w = p/q # 0: exact, or outside
\* the tracked range when the power is irrational
RationalPow(a, w) ==
    LET p  == AbsInt(w.n)
        rn == ExactRoot(a.n, w.d)
        rd == ExactRoot(a.d, w.d)
        pn == IF rn = -1 THEN -1 ELSE PowMag(rn, p)
        pd == IF rd = -1 THEN -1 ELSE PowMag(rd, p)
    IN  IF pn = -1 \/ pd = -1 THEN OutOfRange
        ELSE IF w.n > 0 THEN FloatChecked(pn, pd) ELSE FloatChecked(pd, pn)

\* float_pow
FloatPow(a, w) ==
    IF IsZero(w) THEN Ok(PyFloatRaw(1, 1))
    ELSE IF IsNaN(a) THEN Ok(PyNaN)
    ELSE IF IsNaN(w) THEN (IF a = PyFloatRaw(1, 1) THEN Ok(a) ELSE Ok(PyNaN))
    ELSE IF IsInf(w)
         THEN (IF IsFinite(a) /\ AbsInt(a.n) = a.d THEN Ok(PyFloatRaw(1, 1))
               ELSE IF (w.n > 0) = (IsInf(a) \/ AbsInt(a.n) > a.d) THEN Ok(PyInf)
               ELSE Ok(PyFloatRaw(0, 1)))
    ELSE IF IsInf(a)
         THEN (IF w.n > 0
               THEN Ok(IF a.n < 0 /\ IsOddIntegral(w) THEN PyNegInf ELSE PyInf)
               ELSE Ok(PyFloatRaw(0, 1)))
    ELSE IF a.n = 0
         THEN (IF w.n < 0
               THEN Raise("ZeroDivisionError", "0.0 cannot be raised to a negative power", "")
               ELSE Ok(PyFloatRaw(0, 1)))
    ELSE IF a.n < 0 /\ ~IsIntegral(w) THEN Ok(PyComplex)
    ELSE LET r == RationalPow(PyFloatRaw(AbsInt(a.n), a.d), w)
         IN  IF r.st = "ok" /\ a.n < 0 /\ IsOddIntegral(w) THEN Ok(FloatNeg(r.v)) ELSE r

\* ------------------------------------------------------------------------
\* SAFE_OPERATORS: the functions of the operator module the table holds
\* ------------------------------------------------------------------------
TypeErrorOperand(op) == Raise("TypeError", "unsupported operand type(s)", op)

\* both operands as floats, or the OverflowError of the conversion
Coerce(l, r) ==
    LET a == ToFloat(l)
        b == ToFloat(r)
    IN  IF a.st # "ok" THEN a ELSE IF b.st # "ok" THEN b ELSE Ok(PyTuple(<<a.v, b.v>>))

\* an operation with at least one complex operand and no sequence operand
ComplexOp(op, l, r) ==
    IF (IsIntLike(l) /\ AbsInt(l.n) > FloatMax) \/ (IsIntLike(r) /\ AbsInt(r.n) > FloatMax)
    THEN Raise("OverflowError", "int too large to convert to float", "")
    ELSE IF op \in {"FloorDiv", "Mod"} THEN TypeErrorOperand(op)
    ELSE IF op = "Div" /\ IsZero(r)
         THEN Raise("ZeroDivisionError", "complex division by zero", "")
    ELSE IF op = "Pow" /\ IsZero(l)
         THEN Raise("ZeroDivisionError", "0.0 to a negative or complex power", "")
    ELSE Ok(PyComplex)

\* int.__pow__: a negative exponent gives a float
IntPowOp(l, r) ==
    IF r.n >= 0
    THEN LET m == PowMag(AbsInt(l.n), r.n)
         IN  IF m = -1 THEN OutOfRange ELSE Ok(PyInt(PowSign(l.n, r.n) * m))
    ELSE LET c == Coerce(l, r)
         IN  IF c.st # "ok" THEN c ELSE FloatPow(c.v.items[1], c.v.items[2])

\* an operation on two of int, bool, float
RealOp(op, l, r) ==
    IF IsIntLike(l) /\ IsIntLike(r)
    THEN CASE op = "Add"  -> IntResult(l.n + r.n)
           [] op = "Sub"  -> IntResult(l.n - r.n)
           [] op = "Mult" -> IntResult(l.n * r.n)
           [] op = "Div"  ->
                IF r.n = 0 THEN Raise("ZeroDivisionError", "division by zero", "")
                ELSE FloatChecked(l.n, r.n)
           [] op = "FloorDiv" ->
                IF r.n = 0
                THEN Raise("ZeroDivisionError", "integer division or modulo by zero", "")
                ELSE Ok(PyInt(FloorDivInt(l.n, r.n)))
           [] op = "Mod" ->
                IF r.n = 0
                THEN Raise("ZeroDivisionError", "integer division or modulo by zero", "")
                ELSE Ok(PyInt(ModInt(l.n, r.n)))
           [] op = "Pow"  -> IntPowOp(l, r)
    ELSE LET c == Coerce(l, r)
         IN  IF c.st # "ok" THEN c
             ELSE LET a == c.v.items[1]
                      b == c.v.items[2]
                  IN  CASE op = "Add"  -> FloatAdd(a, b)
                        [] op = "Sub"  -> FloatSub(a, b)
                        [] op = "Mult" -> FloatMul(a, b)
                        [] op = "Div"  -> FloatTrueDiv(a, b)
                        [] op = "FloorDiv" -> FloatFloorDiv(a, b)
                        [] op = "Mod"  -> FloatMod(a, b)
                        [] op = "Pow"  -> FloatPow(a, b)

RECURSIVE Repeat(_, _)
Repeat(xs, n) == IF n <= 0 THEN << >> ELSE xs \o Repeat(xs, n - 1)

\* a sequence object, if it stays in the tracked range
SeqResult(k, xs) ==
    IF Len(xs) > MaxItems THEN OutOfRange
    ELSE Ok([k |-> k, n |-> 0, d |-> 1, items |-> xs])

\* list/tuple repetition: sequence * int
SeqRepeat(sq, cnt) ==
    IF cnt.n > 0 /\ Len(sq.items) * cnt.n > MaxItems THEN OutOfRange
    ELSE SeqResult(sq.k, Repeat(sq.items, cnt.n))

\* operator.add, sub, mul, truediv, floordiv, mod, pow
BinaryOperator(op, l, r) ==
    IF IsSeq(l) \/ IsSeq(r)
    THEN IF op = "Add" /\ l.k = r.k THEN SeqResult(l.k, l.items \o r.items)
         ELSE IF op = "Mult" /\ IsSeq(l) /\ IsIntLike(r) THEN SeqRepeat(l, r)
         ELSE IF op = "Mult" /\ IsIntLike(l) /\ IsSeq(r) THEN SeqRepeat(r, l)
         ELSE TypeErrorOperand(op)
    ELSE IF IsComplex(l) \/ IsComplex(r) THEN ComplexOp(op, l, r)
    ELSE RealOp(op, l, r)

\* operator.neg, operator.pos
UnaryOperator(op, v) ==
    IF IsSeq(v) THEN Raise("TypeError", "bad operand type for unary", op)
    ELSE IF IsComplex(v) THEN Ok(v)
    ELSE IF IsFloat(v) THEN Ok(IF op = "USub" THEN FloatNeg(v) ELSE v)
    ELSE Ok(PyInt(IF op = "USub" THEN -v.n ELSE v.n))

\* SAFE_OPERATORS: AST operator class -> function
BinaryOps == {"Add", "Sub", "Mult", "Div", "FloorDiv", "Mod", "Pow"}

UnaryOps == {"USub", "UAdd"}

SAFE_OPERATORS == BinaryOps \cup UnaryOps

\* ------------------------------------------------------------------------
\* SAFE_CONSTANTS.  The floats math.pi, math.e and math.tau are rational
\* approximations of the irrational numbers; so are these (tau = 2 * pi holds
\* exactly, as it does for the floats).
\* ------------------------------------------------------------------------
MathPi == PyFloatRaw(22, 7)

MathE == PyFloatRaw(19, 7)

MathTau == PyFloatRaw(44, 7)

SAFE_CONSTANTS == [pi |-> MathPi, e |-> MathE, tau |-> MathTau]

ConstantNames == DOMAIN SAFE_CONSTANTS

\* ------------------------------------------------------------------------
\* SAFE_FUNCTIONS: the host functions the table holds
\* ------------------------------------------------------------------------
\* a call that yields a number whatever the count of its arguments
ArityIgnored(f) == Ok(PyInt(0))

ArityError(f) == Raise("TypeError", "wrong number of arguments", f)

ArgTypeError(f) == Raise("TypeError", "bad argument type", f)

DomainError == Raise("ValueError", "math domain error", "")

\* rich comparison a == b of two objects, as Ok(PyBool(_)); the value of a
\* complex number is not tracked
RECURSIVE PyEq(_, _)
PyEq(a, b) ==
    IF IsSeq(a) \/ IsSeq(b)
    THEN IF a.k # b.k \/ Len(a.items) # Len(b.items) THEN Ok(PyBool(FALSE))
         ELSE IF Len(a.items) = 0 THEN Ok(PyBool(TRUE))
         ELSE LET h == PyEq(a.items[1], b.items[1])
              IN  IF h.st # "ok" \/ h.v.n = 0 THEN h
                  ELSE PyEq([a EXCEPT !.items = Tail(a.items)],
                            [b EXCEPT !.items = Tail(b.items)])
    ELSE IF IsComplex(a) \/ IsComplex(b) THEN OutOfRange
    ELSE IF IsNaN(a) \/ IsNaN(b) THEN Ok(PyBool(FALSE))
    ELSE Ok(PyBool(a.n = b.n /\ a.d = b.d))

\* a < b on int, bool, float
RealLess(a, b) ==
    IF IsNaN(a) \/ IsNaN(b) THEN FALSE
    ELSE IF IsInf(a) THEN a.n < 0 /\ ~(IsInf(b) /\ b.n < 0)
    ELSE IF IsInf(b) THEN b.n > 0
    ELSE a.n * b.d < b.n * a.d

\* rich comparison a < b, as Ok(PyBool(_)) or the TypeError of unorderable
\* operands; sequences compare by their first differing item, then by length
RECURSIVE PyLess(_, _)
PyLess(a, b) ==
    IF IsReal(a) /\ IsReal(b) THEN Ok(PyBool(RealLess(a, b)))
    ELSE IF IsSeq(a) /\ a.k = b.k
    THEN IF Len(a.items) = 0 \/ Len(b.items) = 0
         THEN Ok(PyBool(Len(a.items) < Len(b.items)))
         ELSE LET h == PyEq(a.items[1], b.items[1])
              IN  IF h.st # "ok" THEN h
                  ELSE IF h.v.n = 0 THEN PyLess(a.items[1], b.items[1])
                  ELSE PyLess([a EXCEPT !.items = Tail(a.items)],
                              [b EXCEPT !.items = Tail(b.items)])
    ELSE Raise("TypeError", "'<' not supported between instances", "")

\* min_max: the running best is replaced by an item that compares strictly
\* better; f = "min" or "max"
RECURSIVE MinMaxFold(_, _, _)
MinMaxFold(f, best, xs) ==
    IF Len(xs) = 0 THEN Ok(best)
    ELSE LET c == IF f = "min" THEN PyLess(xs[1], best) ELSE PyLess(best, xs[1])
         IN  IF c.st # "ok" THEN c
             ELSE MinMaxFold(f, IF c.v.n = 1 THEN xs[1] ELSE best, Tail(xs))

\* builtins min, max
MinMax(f, args) ==
    IF Len(args) = 0 THEN ArityError(f)
    ELSE IF Len(args) = 1
    THEN IF ~IsSeq(args[1]) THEN Raise("TypeError", "object is not iterable", f)
         ELSE IF Len(args[1].items) = 0
              THEN Raise("ValueError", "arg is an empty sequence", f)
         ELSE MinMaxFold(f, args[1].items[1], Tail(args[1].items))
    ELSE MinMaxFold(f, args[1], Tail(args))

RECURSIVE SumFold(_, _)
SumFold(acc, xs) ==
    IF Len(xs) = 0 THEN Ok(acc)
    ELSE LET r == BinaryOperator("Add", acc, xs[1])
         IN  IF r.st # "ok" THEN r ELSE SumFold(r.v, Tail(xs))

\* builtin sum(iterable, start=0)
Sum(args) ==
    IF Len(args) \notin {1, 2} THEN ArityError("sum")
    ELSE IF ~IsSeq(args[1]) THEN Raise("TypeError", "object is not iterable", "sum")
    ELSE SumFold(IF Len(args) = 2 THEN args[2] ELSE PyInt(0), args[1].items)

\* builtin abs
Abs(args) ==
    IF Len(args) # 1 THEN ArityError("abs")
    ELSE LET x == args[1]
         IN  IF IsSeq(x) THEN ArgTypeError("abs")
             ELSE IF IsComplex(x) THEN OutOfRange
             ELSE IF IsFloat(x) THEN Ok(PyFloatRaw(AbsInt(x.n), x.d))
             ELSE Ok(PyInt(AbsInt(x.n)))

\* n/d (d > 0) rounded to an integer, ties to even
RoundHalfEven(n, d) ==
    LET q == FloorDivInt(n, d)
        r == n - q * d
    IN  IF 2 * r < d THEN q
        ELSE IF 2 * r > d THEN q + 1
        ELSE IF q % 2 = 0 THEN q ELSE q + 1

RECURSIVE IsPowerOfTwo(_)
IsPowerOfTwo(d) == d = 1 \/ (d > 1 /\ d % 2 = 0 /\ IsPowerOfTwo(d \div 2))

\* float -> int conversion of __round__, math.floor, math.ceil: r is the
\* integer the finite float x converts to
FloatToInt(x, r) ==
    IF IsNaN(x) THEN Raise("ValueError", "cannot convert float NaN to integer", "")
    ELSE IF IsInf(x)
         THEN Raise("OverflowError", "cannot convert float infinity to integer", "")
    ELSE Ok(PyInt(r))

\* builtin round(number, ndigits=None).  A tie of a float that is no dyadic
\* rational is decided by the float's representation error: not tracked.
Round(args) ==
    IF Len(args) \notin {1, 2} THEN ArityError("round")
    ELSE LET x == args[1]
         IN  IF ~IsReal(x) THEN ArgTypeError("round")
             ELSE IF Len(args) = 1
             THEN IF IsIntLike(x) THEN Ok(PyInt(x.n))
                  ELSE IF IsFinite(x) /\ 2 * (x.n % x.d) = x.d /\ ~IsPowerOfTwo(x.d)
                       THEN OutOfRange
                  ELSE FloatToInt(x, IF IsFinite(x) THEN RoundHalfEven(x.n, x.d) ELSE 0)
             ELSE IF ~IsIntLike(args[2]) THEN ArgTypeError("round")
             ELSE LET nd == args[2].n
                      m  == PowMag(10, AbsInt(nd))
                  IN  IF IsIntLike(x) /\ nd >= 0 THEN Ok(PyInt(x.n))
                      ELSE IF ~IsFinite(x) THEN Ok(x)
                      ELSE IF m = -1 THEN OutOfRange
                      ELSE IF IsIntLike(x)
                           THEN IntResult(RoundHalfEven(x.n, m) * m)
                      ELSE IF nd < 0
                           THEN FloatResult(RoundHalfEven(x.n, x.d * m) * m, 1)
                      ELSE IF 2 * ((x.n * m) % x.d) = x.d /\ ~IsPowerOfTwo(x.d)
                           THEN OutOfRange
                      ELSE FloatResult(RoundHalfEven(x.n * m, x.d), m)

\* math.floor, math.ceil
FloorCeil(f, args) ==
    IF Len(args) # 1 THEN ArityError(f)
    ELSE LET x == args[1]
         IN  IF ~IsReal(x) THEN ArgTypeError(f)
             ELSE IF IsIntLike(x) THEN Ok(PyInt(x.n))
             ELSE FloatToInt(x, IF ~IsFinite(x) THEN 0
                                ELSE IF f = "floor" THEN FloorDivInt(x.n, x.d)
                                ELSE -FloorDivInt(-x.n, x.d))

\* the float argument of a one-argument math function
MathArg(f, args) ==
    IF Len(args) # 1 THEN ArityError(f)
    ELSE IF ~IsReal(args[1]) THEN ArgTypeError(f)
    ELSE ToFloat(args[1])

\* math.sqrt
Sqrt(args) ==
    LET a == MathArg("sqrt", args)
    IN  IF a.st # "ok" THEN a
        ELSE IF IsNaN(a.v) \/ a.v = PyInf THEN Ok(a.v)
        ELSE IF a.v.n < 0 THEN DomainError
        ELSE LET rn == ExactRoot(a.v.n, 2)
                 rd == ExactRoot(a.v.d, 2)
             IN  IF rn = -1 \/ rd = -1 THEN OutOfRange ELSE FloatResult(rn, rd)

\* math.sin, math.cos, math.tan: tracked where the float result is exact
Trig(f, args) ==
    LET a == MathArg(f, args)
    IN  IF a.st # "ok" THEN a
        ELSE IF IsNaN(a.v) THEN Ok(a.v)
        ELSE IF IsInf(a.v) THEN DomainError
        ELSE IF a.v.n = 0 THEN Ok(PyFloatRaw(IF f = "cos" THEN 1 ELSE 0, 1))
        ELSE IF f = "sin" /\ a.v = PyFloatRaw(11, 7) THEN Ok(PyFloatRaw(1, 1))
        ELSE IF f = "cos" /\ a.v = MathPi THEN Ok(PyFloatRaw(-1, 1))
        ELSE IF f = "cos" /\ a.v = MathTau THEN Ok(PyFloatRaw(1, 1))
        ELSE OutOfRange

\* math.exp: e ** 5 exceeds FloatMax
Exp(args) ==
    LET a == MathArg("exp", args)
    IN  IF a.st # "ok" THEN a
        ELSE IF IsNaN(a.v) \/ a.v = PyInf THEN Ok(a.v)
        ELSE IF a.v = PyNegInf THEN Ok(PyFloatRaw(0, 1))
        ELSE IF a.v.n = 0 THEN Ok(PyFloatRaw(1, 1))
        ELSE IF a.v = PyFloatRaw(1, 1) THEN Ok(MathE)
        ELSE IF a.v.n >= 5 * a.v.d THEN Raise("OverflowError", "math range error", "")
        ELSE OutOfRange

\* the exponent k with b ** k = n for integers n >= 1, b >= 2, or -1
RECURSIVE ExactLog(_, _)
ExactLog(n, b) ==
    IF n = 1 THEN 0
    ELSE IF n % b # 0 THEN -1
    ELSE LET k == ExactLog(n \div b, b) IN IF k = -1 THEN -1 ELSE k + 1

\* the logarithm of a float or int x > 0 to base 2 or 10, where it is an integer
LogBase(x, b) ==
    LET kn == ExactLog(x.n, b)
        kd == ExactLog(x.d, b)
    IN  IF x.d = 1 /\ kn # -1 THEN Ok(PyFloatRaw(kn, 1))
        ELSE IF x.n = 1 /\ kd # -1 /\ b = 2 THEN Ok(PyFloatRaw(-kd, 1))
        ELSE OutOfRange

\* the natural logarithm of one argument of math.log: an int is not converted
\* to a float first
Ln(x) ==
    IF ~IsReal(x) THEN ArgTypeError("log")
    ELSE IF IsNaN(x) \/ x = PyInf THEN Ok(x)
    ELSE IF x = PyNegInf \/ x.n <= 0 THEN DomainError
    ELSE IF x.n = 1 /\ x.d = 1 THEN Ok(PyFloatRaw(0, 1))
    ELSE IF x = MathE THEN Ok(PyFloatRaw(1, 1))
    ELSE OutOfRange

\* math.log(x[, base]) = ln(x) / ln(base)
Log(args) ==
    IF Len(args) \notin {1, 2} THEN ArityError("log")
    ELSE LET num == Ln(args[1])
         IN  IF Len(args) = 1 \/ num.st = "raise" THEN num
             ELSE LET den == Ln(args[2])
                  IN  IF den.st = "raise" THEN den
                      ELSE IF den.st = "ok" /\ IsZero(den.v)
                           THEN Raise("ZeroDivisionError", "float division by zero", "")
                      ELSE IF num.st = "ok" /\ den.st = "ok" THEN FloatTrueDiv(num.v, den.v)
                      ELSE IF num.st = "ok" /\ IsZero(num.v) THEN Ok(PyFloatRaw(0, 1))
                      ELSE IF IsFinite(args[1]) /\ IsFinite(args[2])
                              /\ args[1].n = args[2].n /\ args[1].d = args[2].d
                           THEN Ok(PyFloatRaw(1, 1))
                      ELSE OutOfRange

\* math.log2, math.log10
LogN(f, args) ==
    IF Len(args) # 1 THEN ArityError(f)
    ELSE LET x == args[1]
         IN  IF ~IsReal(x) THEN ArgTypeError(f)
             ELSE IF IsNaN(x) \/ x = PyInf THEN Ok(x)
             ELSE IF x = PyNegInf \/ x.n <= 0 THEN DomainError
             ELSE LogBase(x, IF f = "log2" THEN 2 ELSE 10)

\* (a ** e) % m for e >= 0, m # 0, with the sign of m
RECURSIVE PowMod(_, _, _)
PowMod(a, e, m) ==
    IF e = 0 THEN ModInt(1, m) ELSE ModInt(PowMod(a, e - 1, m) * ModInt(a, m), m)

\* the inverse of a modulo m > 1 among from..m-1, or -1
RECURSIVE InvMod(_, _, _)
InvMod(from, a, m) ==
    IF from >= m THEN -1
    ELSE IF (ModInt(a, m) * from) % m = 1 THEN from
    ELSE InvMod(from + 1, a, m)

\* builtin pow(base, exp[, mod])
Pow(args) ==
    IF Len(args) = 2 THEN BinaryOperator("Pow", args[1], args[2])
    ELSE IF Len(args) # 3 THEN ArityError("pow")
    ELSE LET a == args[1]
             e == args[2]
             m == args[3]
         IN  IF ~(IsIntLike(a) /\ IsIntLike(e) /\ IsIntLike(m))
             THEN Raise("TypeError", "pow() 3rd argument not allowed unless all arguments are integers", "")
             ELSE IF m.n = 0 THEN Raise("ValueError", "pow() 3rd argument cannot be 0", "")
             ELSE IF AbsInt(m.n) = 1 THEN Ok(PyInt(0))
             ELSE IF e.n >= 0 THEN Ok(PyInt(PowMod(a.n, e.n, m.n)))
             ELSE LET inv == InvMod(1, a.n, AbsInt(m.n))
                  IN  IF inv = -1
                      THEN Raise("ValueError", "base is not invertible for the given modulus", "")
                      ELSE Ok(PyInt(PowMod(inv, -e.n, m.n)))

\* SAFE_FUNCTIONS: lowercase name -> host function
FunctionNames ==
    {"abs", "round", "min", "max", "sum", "sqrt", "sin", "cos", "tan", "log",
     "log10", "log2", "exp", "floor", "ceil", "pow"}

SAFE_FUNCTIONS(f, args) ==
    CASE f = "abs"   -> Abs(args)
      [] f = "round" -> Round(args)
      [] f \in {"min", "max"} -> MinMax(f, args)
      [] f = "sum"   -> Sum(args)
      [] f = "sqrt"  -> Sqrt(args)
      [] f \in {"sin", "cos", "tan"} -> Trig(f, args)
      [] f = "log"   -> Log(args)
      [] f \in {"log10", "log2"} -> LogN(f, args)
      [] f = "exp"   -> Exp(args)
      [] f \in {"floor", "ceil"} -> FloorCeil(f, args)
      [] f = "pow"   -> Pow(args)

\* ------------------------------------------------------------------------
\* Lexemes of an expression, and the syntax tree of the ast module
\* ------------------------------------------------------------------------
NumberLexemes ==
    {"0", "1", "2", "3", "4", "5", "15", "16", "17", "0.5", "1e308", "1e999"}

NameLexemes ==
    {"pi", "PI", "Pi", "e", "tau", "x", "X", "abs", "min", "max", "MAX", "sum",
     "sqrt", "SQRT", "sin", "round", "evil", "somefield"}

StringLexemes == {"'s'"}

Lexemes ==
    NumberLexemes \cup NameLexemes \cup StringLexemes
        \cup {"True"}
        \cup {"+", "-", "*", "/", "//", "%", "**", "@", "~", "<"}
        \cup {"(", ")", "[", "]", ",", ".", "="}

EndMarker == "<end>"

PyStr == [k |-> "str", n |-> 0, d |-> 1, items |-> NoItems]

\* the value of a NUMBER lexeme; 1e999 exceeds every finite float
NumberValue(tok) ==
    CASE tok = "0" -> PyInt(0)
      [] tok = "1" -> PyInt(1)
      [] tok = "2" -> PyInt(2)
      [] tok = "3" -> PyInt(3)
      [] tok = "4" -> PyInt(4)
      [] tok = "5" -> PyInt(5)
      [] tok = "15" -> PyInt(15)
      [] tok = "16" -> PyInt(16)
      [] tok = "17" -> PyInt(17)
      [] tok = "0.5" -> PyFloatRaw(1, 2)
      [] tok = "1e308" -> PyFloatRaw(FloatMax, 1)
      [] tok = "1e999" -> PyInf

\* a lookup by the identifier as it is spelled, without case folding
LowerIdentity(name) == name

\* str.lower on the identifiers of NameLexemes
Lower(name) ==
    CASE name = "PI" -> "pi"
      [] name = "Pi" -> "pi"
      [] name = "X" -> "x"
      [] name = "MAX" -> "max"
      [] name = "SQRT" -> "sqrt"
      [] OTHER -> name

\* a parser that yields two nodes for one literal: the constant and a sign
ConstantUnderSign(value) ==
    [t |-> "UnaryOp", op |-> "UAdd", operand |-> [t |-> "Constant", value |-> value]]

Constant(value) == [t |-> "Constant", value |-> value]

Name(id) == [t |-> "Name", id |-> id]

BinOp(op, left, right) == [t |-> "BinOp", op |-> op, left |-> left, right |-> right]

UnaryOp(op, operand) == [t |-> "UnaryOp", op |-> op, operand |-> operand]

Call(func, args, keywords) ==
    [t |-> "Call", func |-> func, args |-> args, keywords |-> keywords]

Keyword(arg, value) == [t |-> "keyword", arg |-> arg, value |-> value]

ListNode(elts) == [t |-> "List", elts |-> elts]

TupleNode(elts) == [t |-> "Tuple", elts |-> elts]

Attribute(value, attr) == [t |-> "Attribute", value |-> value, attr |-> attr]

Subscript(value, slice) == [t |-> "Subscript", value |-> value, slice |-> slice]

Compare(left, comparators) ==
    [t |-> "Compare", left |-> left, comparators |-> comparators]

Starred(value) == [t |-> "Starred", value |-> value]

Expression(body) == [t |-> "Expression", body |-> body]

NoNode == [t |-> "none"]

BinOpClass(tok) ==
    CASE tok = "+" -> "Add"
      [] tok = "-" -> "Sub"
      [] tok = "*" -> "Mult"
      [] tok = "/" -> "Div"
      [] tok = "//" -> "FloorDiv"
      [] tok = "%" -> "Mod"
      [] tok = "**" -> "Pow"
      [] tok = "@" -> "MatMult"

UnaryOpClass(tok) ==
    CASE tok = "+" -> "UAdd"
      [] tok = "-" -> "USub"
      [] tok = "~" -> "Invert"

\* ------------------------------------------------------------------------
\* ast.parse(expression, mode="eval"): the expression grammar of the host
\* parser on sequences of Lexemes.  A parse step yields [ok, node, pos]: the
\* node and the position after it, or ok = FALSE for a SyntaxError.  The
\* grammar rules are the cases of one recursive operator.
\* ------------------------------------------------------------------------
At(toks, i) == IF i <= Len(toks) THEN toks[i] ELSE EndMarker

Parsed(node, pos) == [ok |-> TRUE, node |-> node, pos |-> pos]

SyntaxError == [ok |-> FALSE, node |-> NoNode, pos |-> 0]

\* a variant of TermOperators: + binds as tightly as *
TermOperatorsWithPlus == {"*", "/", "//", "%", "@", "+"}

\* the binary operators of the sum rule and of the term rule
SumOperators == {"+", "-"}

TermOperators == {"*", "/", "//", "%", "@"}

\* the accumulators a rule carries between its steps
NoCtx == [left |-> NoNode]

LeftCtx(left) == [left |-> left]

CompareCtx(left, rest) == [left |-> left, rest |-> rest]

ItemsCtx(close, star, elts, commas) ==
    [close |-> close, star |-> star, elts |-> elts, commas |-> commas]

ArgsCtx(phase, args, keywords) == [phase |-> phase, args |-> args, keywords |-> keywords]

\* Parse(rule, toks, i, c): rule applied at position i of toks
RECURSIVE Parse(_, _, _, _)
Parse(rule, toks, i, c) ==
    LET tok == At(toks, i)
    IN
    CASE rule = "expression" ->
         \* expression: comparison (no lexeme of a looser construct is modelled)
         LET l == Parse("sum", toks, i, NoCtx)
         IN  IF ~l.ok THEN l
             ELSE Parse("compare_rest", toks, l.pos, CompareCtx(l.node, << >>))
      [] rule = "compare_rest" ->
         \* comparison: bitwise_or (compare_op bitwise_or)*
         IF tok = "<"
         THEN LET r == Parse("sum", toks, i + 1, NoCtx)
              IN  IF ~r.ok THEN r
                  ELSE Parse("compare_rest", toks, r.pos,
                             CompareCtx(c.left, Append(c.rest, r.node)))
         ELSE Parsed(IF c.rest = << >> THEN c.left ELSE Compare(c.left, c.rest), i)
      [] rule = "sum" ->
         \* sum: sum ('+' | '-') term | term
         LET l == Parse("term", toks, i, NoCtx)
         IN  IF ~l.ok THEN l ELSE Parse("sum_rest", toks, l.pos, LeftCtx(l.node))
      [] rule = "sum_rest" ->
         IF tok \in SumOperators
         THEN LET r == Parse("term", toks, i + 1, NoCtx)
              IN  IF ~r.ok THEN r
                  ELSE Parse("sum_rest", toks, r.pos,
                             LeftCtx(BinOp(BinOpClass(tok), c.left, r.node)))
         ELSE Parsed(c.left, i)
      [] rule = "term" ->
         \* term: term ('*' | '/' | '//' | '%' | '@') factor | factor
         LET l == Parse("factor", toks, i, NoCtx)
         IN  IF ~l.ok THEN l ELSE Parse("term_rest", toks, l.pos, LeftCtx(l.node))
      [] rule = "term_rest" ->
         IF tok \in TermOperators
         THEN LET r == Parse("factor", toks, i + 1, NoCtx)
              IN  IF ~r.ok THEN r
                  ELSE Parse("term_rest", toks, r.pos,
                             LeftCtx(BinOp(BinOpClass(tok), c.left, r.node)))
         ELSE Parsed(c.left, i)
      [] rule = "factor" ->
         \* factor: ('+' | '-' | '~') factor | power
         IF tok \in {"+", "-", "~"}
         THEN LET r == Parse("factor", toks, i + 1, NoCtx)
              IN  IF ~r.ok THEN r ELSE Parsed(UnaryOp(UnaryOpClass(tok), r.node), r.pos)
         ELSE Parse("power", toks, i, NoCtx)
      [] rule = "power" ->
         \* power: primary ['**' factor]
         LET l == Parse("primary", toks, i, NoCtx)
         IN  IF ~l.ok THEN l
             ELSE IF At(toks, l.pos) = "**"
             THEN LET r == Parse("factor", toks, l.pos + 1, NoCtx)
                  IN  IF ~r.ok THEN r ELSE Parsed(BinOp("Pow", l.node, r.node), r.pos)
             ELSE l
      [] rule = "primary" ->
         \* primary: primary '.' NAME | primary '(' [arguments] ')'
         \*        | primary '[' slices ']' | atom
         LET a == Parse("atom", toks, i, NoCtx)
         IN  IF ~a.ok THEN a ELSE Parse("trailers", toks, a.pos, LeftCtx(a.node))
      [] rule = "trailers" ->
         IF tok = "."
         THEN IF At(toks, i + 1) \in NameLexemes
              THEN Parse("trailers", toks, i + 2, LeftCtx(Attribute(c.left, At(toks, i + 1))))
              ELSE SyntaxError
         ELSE IF tok = "("
         THEN LET r == Parse("args", toks, i + 1, ArgsCtx("positional", << >>, << >>))
              IN  IF ~r.ok THEN r
                  ELSE Parse("trailers", toks, r.pos,
                             LeftCtx(Call(c.left, r.node.args, r.node.keywords)))
         ELSE IF tok = "["
         THEN LET r == Parse("items", toks, i + 1, ItemsCtx("]", "expression", << >>, 0))
              IN  IF ~r.ok \/ r.node.elts = << >> THEN SyntaxError
                  ELSE Parse("trailers", toks, r.pos,
                             LeftCtx(Subscript(c.left,
                                 IF r.node.commas = 0 /\ r.node.elts[1].t # "Starred"
                                 THEN r.node.elts[1]
                                 ELSE TupleNode(r.node.elts))))
         ELSE Parsed(c.left, i)
      [] rule = "atom" ->
         \* atom: NAME | 'True' | strings | NUMBER | tuple | group | list
         IF tok \in NumberLexemes THEN Parsed(Constant(NumberValue(tok)), i + 1)
         ELSE IF tok \in NameLexemes THEN Parsed(Name(tok), i + 1)
         ELSE IF tok = "True" THEN Parsed(Constant(PyBool(TRUE)), i + 1)
         ELSE IF tok \in StringLexemes THEN Parse("strings", toks, i + 1, NoCtx)
         ELSE IF tok = "("
         THEN LET r == Parse("items", toks, i + 1, ItemsCtx(")", "bitwise_or", << >>, 0))
              IN  IF ~r.ok THEN r
                  ELSE IF r.node.elts # << >> /\ r.node.commas = 0
                  THEN IF r.node.elts[1].t = "Starred" THEN SyntaxError
                       ELSE Parsed(r.node.elts[1], r.pos)
                  ELSE Parsed(TupleNode(r.node.elts), r.pos)
         ELSE IF tok = "["
         THEN LET r == Parse("items", toks, i + 1, ItemsCtx("]", "bitwise_or", << >>, 0))
              IN  IF ~r.ok THEN r ELSE Parsed(ListNode(r.node.elts), r.pos)
         ELSE SyntaxError
      [] rule = "strings" ->
         \* strings: STRING+ (adjacent literals are one constant)
         IF tok \in StringLexemes THEN Parse("strings", toks, i + 1, NoCtx)
         ELSE Parsed(Constant(PyStr), i)
      [] rule = "items" ->
         \* ','.item+ [','] up to the closing lexeme, or nothing before it; an
         \* item is an expression or, where star names the operand's rule,
         \* '*' operand.  Yields the items and the number of commas.
         IF tok = c.close
         THEN Parsed([elts |-> c.elts, commas |-> c.commas], i + 1)
         ELSE LET starred == tok = "*" /\ c.star # "none"
                  r == Parse(IF ~starred THEN "expression"
                             ELSE IF c.star = "bitwise_or" THEN "sum" ELSE "expression",
                             toks, IF starred THEN i + 1 ELSE i, NoCtx)
                  node == IF starred THEN Starred(r.node) ELSE r.node
              IN  IF ~r.ok THEN r
                  ELSE IF At(toks, r.pos) = ","
                  THEN Parse("items", toks, r.pos + 1,
                             ItemsCtx(c.close, c.star, Append(c.elts, node), c.commas + 1))
                  ELSE IF At(toks, r.pos) = c.close
                  THEN Parsed([elts |-> Append(c.elts, node), commas |-> c.commas], r.pos + 1)
                  ELSE SyntaxError
      [] rule = "args" ->
         \* arguments: positional and starred arguments, then keyword and
         \* starred arguments, then keyword and double-starred arguments;
         \* [','] ')'
         LET kw == tok \in NameLexemes /\ At(toks, i + 1) = "="
             r == Parse("expression", toks,
                        IF kw THEN i + 2 ELSE IF tok \in {"*", "**"} THEN i + 1 ELSE i,
                        NoCtx)
             phase2 == IF tok = "**" THEN "double_starred"
                       ELSE IF kw /\ c.phase = "positional" THEN "keyword"
                       ELSE c.phase
             args2 == IF kw \/ tok = "**" THEN c.args
                      ELSE Append(c.args, IF tok = "*" THEN Starred(r.node) ELSE r.node)
             keywords2 == IF kw THEN Append(c.keywords, Keyword(tok, r.node))
                          ELSE IF tok = "**" THEN Append(c.keywords, Keyword("", r.node))
                          ELSE c.keywords
         IN  IF tok = ")" THEN Parsed([args |-> c.args, keywords |-> c.keywords], i + 1)
             ELSE IF tok = "*" /\ c.phase = "double_starred" THEN SyntaxError
             ELSE IF ~kw /\ tok \notin {"*", "**"} /\ c.phase # "positional"
                  THEN SyntaxError
             ELSE IF ~r.ok THEN r
             ELSE IF At(toks, r.pos) = ","
                  THEN Parse("args", toks, r.pos + 1, ArgsCtx(phase2, args2, keywords2))
             ELSE IF At(toks, r.pos) = ")"
                  THEN Parsed([args |-> args2, keywords |-> keywords2], r.pos + 1)
             ELSE SyntaxError

\* eval: expressions ENDMARKER, where expressions is ','.expression+ [',']
\* (a tuple as soon as there is a comma)
ParseEval(toks) ==
    LET r == Parse("items", toks, 1, ItemsCtx(EndMarker, "none", << >>, 0))
    IN  IF ~r.ok \/ r.node.elts = << >> THEN SyntaxError
        ELSE IF r.node.commas = 0 THEN Parsed(Expression(r.node.elts[1]), r.pos)
        ELSE Parsed(Expression(TupleNode(r.node.elts)), r.pos)

\* ------------------------------------------------------------------------
\* safe_eval._eval: the tree walk.  A walk yields [r, log]: its outcome and
\* the nodes it evaluated and the table entries it applied, in order.
\* ------------------------------------------------------------------------
Walk(r, log) == [r |-> r, log |-> log]

\* _eval(node) is entered; name is the identifier of a Name and of a Call
\* whose target is one
EvalEvent(node) ==
    [ev |-> "eval", t |-> node.t, args |-> << >>,
     name |-> IF node.t = "Name" THEN node.id
              ELSE IF node.t = "Call" /\ node.func.t = "Name" THEN node.func.id
              ELSE ""]

\* an entry of a table is applied to args
ApplyEvent(table, name, args) == [ev |-> "apply", t |-> table, name |-> name, args |-> args]

\* The three tables are globals of the module, the only state an evaluation
\* shares with another: each maps a key to a host function or to a value
VARIABLE tables

\* the tables as the import of the module binds them
ImportedTables ==
    [SAFE_OPERATORS |-> [op \in SAFE_OPERATORS |-> op],
     SAFE_FUNCTIONS |-> [f \in FunctionNames |-> f],
     SAFE_CONSTANTS |-> SAFE_CONSTANTS]

\* a variant of EvalName: the function table also resolves a name
EvalNameOrFunction(id) ==
    IF Lower(id) \in ConstantNames THEN Ok(SAFE_CONSTANTS[Lower(id)])
    ELSE IF Lower(id) \in FunctionNames THEN Ok(PyNone)
    ELSE Raise("ValueError", "Unknown variable", id)

\* the Name branch
EvalName(id) ==
    IF Lower(id) \in DOMAIN tables.SAFE_CONSTANTS
    THEN Ok(tables.SAFE_CONSTANTS[Lower(id)])
    ELSE Raise("ValueError", "Unknown variable", id)

\* a variant of ResolveFunction: any other target calls abs
ResolveFunctionLoose(func) ==
    IF func.t = "Name" /\ Lower(func.id) \in FunctionNames
    THEN [st |-> "ok", key |-> Lower(func.id)]
    ELSE [st |-> "ok", key |-> "abs"]

\* the checks of the Call branch on the target; yields the key of the table
ResolveFunction(func) ==
    IF func.t # "Name"
    THEN Raise("ValueError", "Only simple function calls are allowed", "")
    ELSE IF Lower(func.id) \notin DOMAIN tables.SAFE_FUNCTIONS
    THEN Raise("ValueError", "Unknown function", func.id)
    ELSE [st |-> "ok", key |-> Lower(func.id)]

RECURSIVE Eval(_)
RECURSIVE EvalAll(_, _, _)

\* [_eval(elem) for elem in nodes]: left to right, ending at the first failure;
\* the values are the items of the tuple it yields
EvalAll(nodes, vals, log) ==
    IF nodes = << >> THEN Walk(Ok(PyTuple(vals)), log)
    ELSE LET h == Eval(nodes[1])
         IN  IF h.r.st # "ok" THEN Walk(h.r, log \o h.log)
             ELSE EvalAll(Tail(nodes), Append(vals, h.r.v), log \o h.log)

Eval(node) ==
    LET enter == << EvalEvent(node) >>
    IN  CASE node.t = "Expression" ->
               LET b == Eval(node.body) IN Walk(b.r, enter \o b.log)
          [] node.t = "Constant" ->
               IF node.value.k \in {"int", "bool", "float"}
               THEN Walk(Ok(node.value), enter)
               ELSE Walk(Raise("ValueError", "Unsupported constant type", node.value.k), enter)
          [] node.t = "Name" ->
               Walk(EvalName(node.id), enter)
          [] node.t = "BinOp" ->
               IF node.op \notin DOMAIN tables.SAFE_OPERATORS
               THEN Walk(Raise("ValueError", "Unsupported operator", node.op), enter)
               ELSE LET l == Eval(node.left)
                    IN  IF l.r.st # "ok" THEN Walk(l.r, enter \o l.log)
                        ELSE LET r == Eval(node.right)
                             IN  IF r.r.st # "ok" THEN Walk(r.r, enter \o l.log \o r.log)
                                 ELSE Walk(BinaryOperator(tables.SAFE_OPERATORS[node.op], l.r.v, r.r.v),
                                           enter \o l.log \o r.log
                                               \o << ApplyEvent("operator", node.op,
                                                                << l.r.v, r.r.v >>) >>)
          [] node.t = "UnaryOp" ->
               IF node.op \notin DOMAIN tables.SAFE_OPERATORS
               THEN Walk(Raise("ValueError", "Unsupported operator", node.op), enter)
               ELSE LET o == Eval(node.operand)
                    IN  IF o.r.st # "ok" THEN Walk(o.r, enter \o o.log)
                        ELSE Walk(UnaryOperator(tables.SAFE_OPERATORS[node.op], o.r.v),
                                  enter \o o.log
                                      \o << ApplyEvent("operator", node.op, << o.r.v >>) >>)
          [] node.t = "Call" ->
               LET f == ResolveFunction(node.func)
               IN  IF f.st # "ok" THEN Walk(f, enter)
                   ELSE LET a == EvalAll(node.args, << >>, << >>)
                        IN  IF a.r.st # "ok" THEN Walk(a.r, enter \o a.log)
                            ELSE Walk(SAFE_FUNCTIONS(tables.SAFE_FUNCTIONS[f.key], a.r.v.items),
                                      enter \o a.log
                                          \o << ApplyEvent("function", f.key,
                                                           a.r.v.items) >>)
          [] node.t = "List" ->
               LET a == EvalAll(node.elts, << >>, << >>)
               IN  IF a.r.st # "ok" THEN Walk(a.r, enter \o a.log)
                   ELSE Walk(SeqResult("list", a.r.v.items), enter \o a.log)
          [] node.t = "Tuple" ->
               LET a == EvalAll(node.elts, << >>, << >>)
               IN  IF a.r.st # "ok" THEN Walk(a.r, enter \o a.log)
                   ELSE Walk(SeqResult("tuple", a.r.v.items), enter \o a.log)
          [] OTHER ->
               Walk(Raise("ValueError", "Unsupported expression type", node.t), enter)

\* what a call of safe_eval did: its outcome, the walk's log and the parser's
\* tree (NoNode without one)
Evaluation(r, log, tree) == [called |-> TRUE, r |-> r, log |-> log, tree |-> tree]

\* return _eval(tree)
EvalTree(w, tree) == Evaluation(w.r, w.log, tree)

\* the try statement around ast.parse: a SyntaxError is re-raised as ValueError
EvalParsed(p) ==
    IF ~p.ok
    THEN Evaluation(Raise("ValueError", "Invalid expression syntax", ""), << >>, NoNode)
    ELSE EvalTree(Eval(p.node), p.node)

\* safe_eval(expression) for a str
safe_eval(toks) == EvalParsed(ParseEval(toks))

\* ------------------------------------------------------------------------
\* CalculatorTool.execute
\* ------------------------------------------------------------------------
VARIABLES
    pc,          \* "idle" before the first call, then "returned" or "raised"
    kwargs,      \* the keyword arguments of the last call
    outcome,     \* the dict the last call returned
    raised,      \* the exception class that left the last call, or ""
    evaluation,  \* what safe_eval did in the last call: [called, r, log, tree]
    threads,     \* the calls of concurrent callers: [pc, kwargs, outcome, raised, evaluation]
    _tools,      \* ToolRegistry._tools: the configs, in the dict's insertion order
    _instances,  \* ToolRegistry._instances: tool id -> the cached instance
    instantiated, \* how many times a handler class has been called so far
    reply,       \* the last call on the registry: [op, args, raised, msg, result]
    search       \* the call of WebSearchTool.execute: [pc, kwargs, outcome, raised, searches, backend]

\* the class variables of ToolRegistry and what its last call gave
registry == << _tools, _instances, instantiated, reply >>

vars == << pc, kwargs, outcome, raised, evaluation, tables, threads, registry, search >>

\* the objects a caller passes as expression
StrArg(toks) == [type |-> "str", toks |-> toks, n |-> 0]

IntArg(n) == [type |-> "int", toks |-> << >>, n |-> n]

NoneArg == [type |-> "NoneType", toks |-> << >>, n |-> 0]

\* kwargs with and without the key "expression"
WithExpression(arg) == [has |-> TRUE, expression |-> arg]

WithoutExpression == [has |-> FALSE, expression |-> NoneArg]

\* bool(arg)
Truthy(arg) ==
    CASE arg.type = "str" -> arg.toks # << >>
      [] arg.type = "int" -> arg.n # 0
      [] OTHER -> FALSE

ErrorMessage(text, detail) == [text |-> text, detail |-> detail]

NotCalled == [called |-> FALSE, r |-> OutOfRange, log |-> << >>, tree |-> NoNode]

NoOutcome == [none |-> TRUE]

\* variants of ExceptClauses: without the last clause, and with it first
ExceptClausesWithoutCatchAll == << "ValueError", "ZeroDivisionError", "OverflowError" >>

ExceptClausesCatchAllFirst ==
    << "Exception", "ValueError", "ZeroDivisionError", "OverflowError" >>

\* the except clauses of execute, in order, and the classes each catches
ExceptClauses == << "ValueError", "ZeroDivisionError", "OverflowError", "Exception" >>

Handles(exc) ==
    {i \in DOMAIN ExceptClauses : ExceptClauses[i] = exc \/ ExceptClauses[i] = "Exception"}

\* safe_eval(arg): ast.parse raises TypeError for an object that is no str
SafeEvalCall(arg) ==
    IF arg.type = "str"
    THEN safe_eval(arg.toks)
    ELSE Evaluation(Raise("TypeError",
                          "compile() arg 1 must be a string, bytes or AST object", ""),
                    << >>, NoNode)

\* a variant of Handled: a failure becomes the result 0
HandledAsDefault(clause, arg, r) == [expression |-> arg, result |-> PyInt(0)]

\* the dict an except clause returns
Handled(clause, arg, r) ==
    [expression |-> arg,
     error |-> CASE clause = "ValueError" -> ErrorMessage(r.msg, r.arg)
                 [] clause = "ZeroDivisionError" -> ErrorMessage("Division by zero", "")
                 [] clause = "OverflowError" -> ErrorMessage("Result too large", "")
                 [] clause = "Exception" -> ErrorMessage("Evaluation failed", r.msg)]

\* kwargs.get("expression", "")
GetExpression(kw) == IF kw.has THEN kw.expression ELSE StrArg(<< >>)

\* the first except clause that catches exc (0 when none does)
FirstHandler(h) == IF h = {} THEN 0 ELSE CHOOSE i \in h : \A j \in h : i <= j

\* the try statement of execute around safe_eval, e being what safe_eval did
TryResult(arg, e, first) ==
    IF e.r.st = "ok"
    THEN [pc |-> "returned", raised |-> "", evaluation |-> e,
          outcome |-> [expression |-> arg, result |-> e.r.v]]
    ELSE IF first = 0
    THEN [pc |-> "raised", raised |-> e.r.exc, evaluation |-> e, outcome |-> NoOutcome]
    ELSE [pc |-> "returned", raised |-> "", evaluation |-> e,
          outcome |-> Handled(ExceptClauses[first], arg, e.r)]

Try(arg, e) == TryResult(arg, e, FirstHandler(Handles(e.r.exc)))

ExecuteOn(arg) ==
    IF ~Truthy(arg)
    THEN [pc |-> "returned", raised |-> "", evaluation |-> NotCalled,
          outcome |-> [expression |-> StrArg(<< >>),
                       error |-> ErrorMessage("No expression provided", "")]]
    ELSE Try(arg, SafeEvalCall(arg))

ExecuteBody(kw) == ExecuteOn(GetExpression(kw))

\* ------------------------------------------------------------------------
\* The calls the model makes
\* ------------------------------------------------------------------------
SeqsUpTo(alphabet, len) == UNION {[1..n -> alphabet] : n \in 0..len}

ArithLexemes == {"0", "2", "3", "0.5", "+", "-", "*", "/", "//", "%", "**"}

GroupLexemes == {"2", "3", "+", "-", "*", "**", "(", ")"}

ArgsLexemes == {"1", "x", ",", "=", "*", "**", "[", "]"}

CalledNames == {"abs", "max", "evil"}

\* the expressions of the documented behaviour and of the test-suite
DocumentedExpressions ==
    { << "2", "+", "2" >>, << "15", "/", "3" >>, << "17", "//", "5" >>,
      << "17", "%", "5" >>, << "-", "2", "**", "2" >>, << "2", "**", "-", "2" >>,
      << "sqrt", "(", "16", ")" >>, << "SQRT", "(", "16", ")" >>,
      << "sin", "(", "pi", "/", "2", ")" >>, << "PI" >>, << "pi" >>,
      << "1", "/", "0" >>, << "x", "+", "1" >>, << "evil", "(", "1", ")" >>,
      << "2", "+" >>, << "(", "2", "+", "3" >>,
      << "(", "1", ")", ".", "somefield" >>, << "'s'" >>,
      << "(", "2", "+", "3", ")", "*", "4" >>, << "2", "+", "3", "*", "4" >>,
      << "(", "(", "1", "+", "2", ")", "*", "3", ")", "+", "4" >>,
      << "sqrt", "(", "16", ")", "+", "2", "**", "3" >>,
      << "max", "(", "1", ",", "5", ",", "3", ")" >>,
      << "min", "(", "1", ",", "5", ",", "3", ")" >> }

\* expressions on values that are no plain numbers, one with an operator of
\* every precedence level, one with a keyword argument, and identifiers in
\* upper and mixed case
EdgeExpressions ==
    { << "MAX", "(", "1", ",", "5", ",", "3", ")" >>, << "2", "*", "Pi" >>,
      << "X", "+", "1" >>, << "SQRT", "(", "PI", "*", "x", ")" >>,
      << "sqrt", "(", "1", ",", "2", ")" >>, << "sqrt", "(", ")" >>,
      << "round", "(", "1", ",", "2", ",", "3", ")" >>,
      << "1", "+", "sin", "(", ")" >>,
      << "1e308", "*", "2" >>, << "1e308", "+", "1e308" >>,
      << "1e308", "**", "2" >>, << "-", "1e308", "-", "1e308" >>,
      << "sum", "(", "[", "1e308", ",", "1e308", "]", ")" >>,
      << "MAX", "(", "Pi", ",", "3", ")" >> } \cup
    { << "(", "-", "0.5", ")", "**", "0.5" >>, << "(", "-", "1", ")", "**", "0.5" >>,
      << "[", "1", "]", "/", "0" >>, << "(", ")", "%", "0" >>,
      << "[", "1", "]", "//", "0" >>, << "[", "[", "1", "]", "]" >>,
      << "True", "/", "0" >>, << "1e999", "%", "0" >>,
      << "abs", "(", "1", ")", "+", "evil", "(", "2", ")" >>,
      << "1", "/", "0", "+", "x" >>,
      << "2", "-", "3", "*", "-", "2", "**", "2" >>,
      << "round", "(", "0.5", ",", "x", "=", "1", ")" >> }

\* xs[1] , xs[2] , ... for a non-empty xs
RECURSIVE Commas(_)
Commas(xs) ==
    IF Len(xs) = 1 THEN xs ELSE << xs[1], "," >> \o Commas(Tail(xs))

\* the calls of min, max and sum on one to MaxAggregateLen integers, given as
\* separate arguments and as one list
AggregateCalls ==
    UNION { { << f, "(" >> \o Commas(xs) \o << ")" >>,
              << f, "(", "[" >> \o Commas(xs) \o << "]", ")" >> } :
            f \in {"min", "max", "sum"},
            xs \in SeqsUpTo({"1", "3", "5"}, MaxAggregateLen) \ {<< >>} }

\* the number of parentheses and brackets open at the deepest point of toks
Nesting(toks) ==
    LET open(i) == Cardinality({j \in 1..i : toks[j] \in {"(", "["}})
                       - Cardinality({j \in 1..i : toks[j] \in {")", "]"}})
    IN  IF toks = << >> THEN 0
        ELSE CHOOSE n \in 0..Len(toks) :
                 /\ \A i \in 1..Len(toks) : open(i) <= n
                 /\ n = 0 \/ \E i \in 1..Len(toks) : open(i) = n

Expressions ==
    { s \in SeqsUpTo(Lexemes, MaxShortLen)
              \cup SeqsUpTo(ArithLexemes, MaxArithLen)
              \cup SeqsUpTo(GroupLexemes, MaxGroupLen)
              \cup { << f, "(" >> \o a \o << ")" >> :
                       f \in CalledNames, a \in SeqsUpTo(ArgsLexemes, MaxArgsLen) }
              \cup AggregateCalls \cup DocumentedExpressions \cup EdgeExpressions :
        Nesting(s) <= MaxNesting }

Calls ==
    { WithExpression(StrArg(s)) : s \in Expressions }
        \cup { WithoutExpression, WithExpression(NoneArg),
               WithExpression(IntArg(0)), WithExpression(IntArg(5)) }

\* the callers that run at the same time
ThreadIds == {1, 2}

\* a caller that is not in a call
IdleThread ==
    [pc |-> "idle", kwargs |-> WithoutExpression, outcome |-> NoOutcome,
     raised |-> "", evaluation |-> NotCalled]

\* WebSearchTool.execute has not been called
NoBackend == [kind |-> "unused", at |-> "", class |-> "", msg |-> "", results |-> << >>]
NoSearch == [pc |-> "idle", kwargs |-> << >>, outcome |-> << >>, raised |-> "",
             searches |-> << >>, backend |-> NoBackend]

\* no call has been made on the registry
NoReply == [op |-> "", args |-> << >>, raised |-> "", msg |-> "", result |-> << >>]

Init ==
    /\ pc = "idle"
    /\ kwargs = WithoutExpression
    /\ outcome = NoOutcome
    /\ raised = ""
    /\ evaluation = NotCalled
    /\ tables = ImportedTables
    /\ threads = [t \in ThreadIds |-> IdleThread]
    /\ _tools = << >>
    /\ _instances = << >>
    /\ instantiated = 0
    /\ reply = NoReply
    /\ search = NoSearch

\* the evaluation of a call's expression stays in the tracked range
InRange(kw) ==
    ~Truthy(GetExpression(kw)) \/ SafeEvalCall(GetExpression(kw)).r.st # "oob"

\* a caller invokes the tool
Invoke ==
    /\ pc = "idle"
    /\ \E kw \in Calls :
           /\ InRange(kw)
           /\ kwargs' = kw
    /\ pc' = "running"
    /\ UNCHANGED << outcome, raised, evaluation, tables, threads, registry, search >>

\* CalculatorTool.execute(**kwargs), from entry to return or raise
Leave(b) ==
    /\ pc' = b.pc
    /\ outcome' = b.outcome
    /\ raised' = b.raised
    /\ evaluation' = b.evaluation

execute ==
    /\ pc = "running"
    /\ Leave(ExecuteBody(kwargs))
    /\ UNCHANGED << kwargs, tables, threads, registry, search >>

\* the caller takes the outcome; nothing of the call is kept
Finish ==
    /\ pc \in {"returned", "raised"}
    /\ pc' = "idle"
    /\ kwargs' = WithoutExpression
    /\ outcome' = NoOutcome
    /\ raised' = ""
    /\ evaluation' = NotCalled
    /\ UNCHANGED << tables, threads, registry, search >>

Next ==
    \/ Invoke
    \/ execute
    \/ Finish

Spec == Init /\ [][Next]_vars

\* ------------------------------------------------------------------------
\* Concurrent callers.  Each caller enters execute, evaluates and returns on
\* its own thread; the steps of different callers interleave, and all of
\* them read the same tables.
\* ------------------------------------------------------------------------
\* the calls the concurrent callers make
SharedCalls ==
    { WithExpression(StrArg(s)) : s \in DocumentedExpressions \cup EdgeExpressions }
        \cup { WithoutExpression }

\* a variant of TablesAfter: an evaluation binds the name x to a number
TablesCaching(t, e) ==
    [t EXCEPT !.SAFE_CONSTANTS =
        [n \in DOMAIN t.SAFE_CONSTANTS \cup {"x"} |->
            IF n = "x" THEN PyInt(1) ELSE t.SAFE_CONSTANTS[n]]]

\* a variant of TablesAfter: an evaluation rebinds pi
TablesRebinding(t, e) ==
    [t EXCEPT !.SAFE_CONSTANTS = [t.SAFE_CONSTANTS EXCEPT !["pi"] = PyInt(3)]]

\* the tables after the evaluation e: no statement of safe_eval or of execute
\* assigns to a table or to an entry of one
TablesAfter(t, e) == t

\* a caller's thread enters execute
Enter(t) ==
    /\ threads[t].pc = "idle"
    /\ \E kw \in SharedCalls :
           /\ InRange(kw)
           /\ threads' = [threads EXCEPT ![t] = [@ EXCEPT !.pc = "running", !.kwargs = kw]]
    /\ UNCHANGED << pc, kwargs, outcome, raised, evaluation, tables, registry, search >>

\* the thread leaves the body with b
Settle(t, b) ==
    /\ threads' = [threads EXCEPT ![t] =
                      [pc |-> b.pc, kwargs |-> @.kwargs, outcome |-> b.outcome,
                       raised |-> b.raised, evaluation |-> b.evaluation]]
    /\ tables' = TablesAfter(tables, b.evaluation)

\* the thread runs the body of execute on the tables as they are
Evaluate(t) ==
    /\ threads[t].pc = "running"
    /\ Settle(t, ExecuteBody(threads[t].kwargs))
    /\ UNCHANGED << pc, kwargs, outcome, raised, evaluation, registry, search >>

\* the caller takes the outcome
Resume(t) ==
    /\ threads[t].pc \in {"returned", "raised"}
    /\ threads' = [threads EXCEPT ![t] = IdleThread]
    /\ UNCHANGED << pc, kwargs, outcome, raised, evaluation, tables, registry, search >>

ThreadNext == \E t \in ThreadIds : Enter(t) \/ Evaluate(t) \/ Resume(t)

ThreadSpec == Init /\ [][ThreadNext]_vars

\* ------------------------------------------------------------------------
\* ToolRegistry: the class-level registry of tool plugins
\* ------------------------------------------------------------------------
\* how many instances the registry creates in a run
MaxInstantiations == 2

PRIORITY == [BUILTIN |-> 100, OFFICIAL |-> 50, COMMUNITY |-> 10]

\* the objects a caller passes as handler.  truthy: bool(handler); type:
\* isinstance(handler, type); subclass: issubclass(handler, ToolPlugin);
\* constructs: handler() returns an instance (an abstract class raises
\* TypeError); get_name, get_description: what an instance's get_name() and
\* get_description() return
Handlers ==
    { [name |-> "None", truthy |-> FALSE, type |-> FALSE, subclass |-> FALSE,
       constructs |-> FALSE, get_name |-> "", get_description |-> ""],
      [name |-> "''", truthy |-> FALSE, type |-> FALSE, subclass |-> FALSE,
       constructs |-> FALSE, get_name |-> "", get_description |-> ""],
      [name |-> "'not a class'", truthy |-> TRUE, type |-> FALSE, subclass |-> FALSE,
       constructs |-> FALSE, get_name |-> "", get_description |-> ""],
      [name |-> "NotAToolPlugin", truthy |-> TRUE, type |-> TRUE, subclass |-> FALSE,
       constructs |-> TRUE, get_name |-> "", get_description |-> ""],
      [name |-> "MockTool", truthy |-> TRUE, type |-> TRUE, subclass |-> TRUE,
       constructs |-> TRUE, get_name |-> "mock_tool", get_description |-> "A mock tool for testing"],
      [name |-> "OtherTool", truthy |-> TRUE, type |-> TRUE, subclass |-> TRUE,
       constructs |-> TRUE, get_name |-> "other_tool", get_description |-> "Another tool"],
      [name |-> "ToolPlugin", truthy |-> TRUE, type |-> TRUE, subclass |-> TRUE,
       constructs |-> FALSE, get_name |-> "", get_description |-> ""] }

\* the ids a caller registers under, and the ids a caller looks up
RegisterIds == {"", "mock_tool", "other_tool"}
LookupIds == {"mock_tool", "other_tool", "nonexistent"}

\* what a call on the registry gave
NoneResult == [k |-> "None"]
BoolResult(b) == [k |-> "bool", v |-> b]
ListResult(items) == [k |-> "list", items |-> items]
Returns(op, args, result) ==
    [op |-> op, args |-> args, raised |-> "", msg |-> "", result |-> result]
Raises(op, args, class, msg) ==
    [op |-> op, args |-> args, raised |-> class, msg |-> msg, result |-> NoneResult]

\* id in tools, tools[id], and tools after tools[id] = config: a key that is
\* already in a dict keeps its position, a new key goes last
Has(tools, id) == \E i \in DOMAIN tools : tools[i].id = id
ConfigOf(tools, id) == tools[CHOOSE i \in DOMAIN tools : tools[i].id = id]

\* a variant of Store: a key that is already there keeps its enabled flag
StoreKeepingFlag(tools, config) ==
    IF Has(tools, config.id)
        THEN [i \in DOMAIN tools |->
                 IF tools[i].id = config.id
                     THEN [config EXCEPT !.enabled = tools[i].enabled]
                     ELSE tools[i]]
        ELSE Append(tools, config)

\* cls._tools[id] = config
Store(tools, config) ==
    IF Has(tools, config.id)
        THEN [i \in DOMAIN tools |-> IF tools[i].id = config.id THEN config ELSE tools[i]]
        ELSE Append(tools, config)

\* a variant of Delete: the cached instance stays
DeleteNone(instances, id) == instances

\* del instances[id]
Delete(instances, id) == [i \in DOMAIN instances \ {id} |-> instances[i]]

\* a variant of RegisterError: the handler is checked before the id
RegisterErrorHandlerFirst(id, handler) ==
    IF ~handler.truthy THEN "handler is required"
    ELSE IF ~handler.type THEN "must be a class"
    ELSE IF ~handler.subclass THEN "must extend ToolPlugin"
    ELSE IF id = "" THEN "id is required"
    ELSE ""

\* the validation of register: the message of the ValueError, "" when the
\* configuration is accepted
RegisterError(id, handler) ==
    IF id = "" THEN "id is required"
    ELSE IF ~handler.truthy THEN "handler is required"
    ELSE IF ~handler.type THEN "must be a class"
    ELSE IF ~handler.subclass THEN "must extend ToolPlugin"
    ELSE ""

\* ToolRegistry.register(id, handler, priority, enabled)
Registered(args, config) ==
    /\ _tools' = Store(_tools, config)
    /\ _instances' = Delete(_instances, config.id)
    /\ reply' = Returns("register", args, NoneResult)

Rejected(args, error) ==
    /\ reply' = Raises("register", args, "ValueError", error)
    /\ UNCHANGED << _tools, _instances >>

register ==
    /\ \E id \in RegisterIds, handler \in Handlers :
           IF RegisterError(id, handler) = ""
               THEN \E priority \in {PRIORITY.BUILTIN, PRIORITY.COMMUNITY},
                       enabled \in BOOLEAN :
                        Registered(<< id, handler.name, priority, enabled >>,
                                   [id |-> id, handler |-> handler,
                                    priority |-> priority, enabled |-> enabled])
               ELSE Rejected(<< id, handler.name >>, RegisterError(id, handler))
    /\ UNCHANGED << instantiated, pc, kwargs, outcome, raised, evaluation, tables, threads, search >>

\* the serial-th object a handler class returned
Instance(handler, serial) == [k |-> "instance", class |-> handler, serial |-> serial]

\* the registry's instance state before a lookup
Lookup == [instances |-> _instances, instantiated |-> instantiated,
           raised |-> "", result |-> NoneResult, got |-> << >>]

\* a variant of GetInstance: every lookup calls the handler class again
GetInstanceUncached(tools, s, id) ==
    IF ~Has(tools, id) THEN [s EXCEPT !.result = NoneResult]
    ELSE IF ~ConfigOf(tools, id).handler.constructs
        THEN [s EXCEPT !.raised = "TypeError", !.result = NoneResult]
    ELSE [s EXCEPT !.instantiated = @ + 1,
                   !.instances =
                       [i \in DOMAIN s.instances \cup {id} |->
                           IF i = id
                               THEN Instance(ConfigOf(tools, id).handler, s.instantiated + 1)
                               ELSE s.instances[i]],
                   !.result = Instance(ConfigOf(tools, id).handler, s.instantiated + 1)]

\* a variant of GetInstance: a disabled tool is looked up like an id that is
\* not registered
GetInstanceIfEnabled(tools, s, id) ==
    IF ~Has(tools, id) \/ ~ConfigOf(tools, id).enabled THEN [s EXCEPT !.result = NoneResult]
    ELSE IF id \in DOMAIN s.instances THEN [s EXCEPT !.result = s.instances[id]]
    ELSE IF ~ConfigOf(tools, id).handler.constructs
        THEN [s EXCEPT !.raised = "TypeError", !.result = NoneResult]
    ELSE [s EXCEPT !.instantiated = @ + 1,
                   !.instances =
                       [i \in DOMAIN s.instances \cup {id} |->
                           IF i = id
                               THEN Instance(ConfigOf(tools, id).handler, s.instantiated + 1)
                               ELSE s.instances[i]],
                   !.result = Instance(ConfigOf(tools, id).handler, s.instantiated + 1)]

\* ToolRegistry.get_instance(id) on the instance state s: None for an id that
\* is not registered, the cached instance if there is one, else handler_class()
\* is called and what it returns is cached; what it raises leaves the call
GetInstance(tools, s, id) ==
    IF ~Has(tools, id) THEN [s EXCEPT !.result = NoneResult]
    ELSE IF id \in DOMAIN s.instances THEN [s EXCEPT !.result = s.instances[id]]
    ELSE IF ~ConfigOf(tools, id).handler.constructs
        THEN [s EXCEPT !.raised = "TypeError", !.result = NoneResult]
    ELSE [s EXCEPT !.instantiated = @ + 1,
                   !.instances =
                       [i \in DOMAIN s.instances \cup {id} |->
                           IF i = id
                               THEN Instance(ConfigOf(tools, id).handler, s.instantiated + 1)
                               ELSE s.instances[i]],
                   !.result = Instance(ConfigOf(tools, id).handler, s.instantiated + 1)]

\* the loop keeps what the lookup returned
Collect(s) == IF s.raised # "" THEN s ELSE [s EXCEPT !.got = Append(@, s.result)]

\* what a lookup gives its caller
Answer(op, args, s) ==
    IF s.raised # "" THEN Raises(op, args, s.raised, "") ELSE Returns(op, args, s.result)

\* the lookups a loop over ids makes, in order, until one raises; got
\* collects what the lookups returned
RECURSIVE GetInstances(_, _, _)
GetInstances(tools, s, ids) ==
    IF ids = << >> \/ s.raised # "" THEN s
    ELSE GetInstances(tools, Collect(GetInstance(tools, s, Head(ids))), Tail(ids))

\* the call leaves the instance state s behind
Keep(s) ==
    /\ s.instantiated <= MaxInstantiations
    /\ _instances' = s.instances
    /\ instantiated' = s.instantiated

get_instance ==
    /\ \E id \in LookupIds :
           /\ Keep(GetInstance(_tools, Lookup, id))
           /\ reply' = Answer("get_instance", << id >>, GetInstance(_tools, Lookup, id))
    /\ UNCHANGED << _tools, pc, kwargs, outcome, raised, evaluation, tables, threads, search >>

\* a variant of SetEnabled: the flag of every tool is set
SetEnabledAll(tools, id, enabled) ==
    [i \in DOMAIN tools |-> [tools[i] EXCEPT !.enabled = enabled]]

\* ToolRegistry.set_tool_enabled(tool_id, enabled)
SetEnabled(tools, id, enabled) ==
    [i \in DOMAIN tools |->
        IF tools[i].id = id THEN [tools[i] EXCEPT !.enabled = enabled] ELSE tools[i]]

set_tool_enabled ==
    /\ \E tool_id \in LookupIds, enabled \in BOOLEAN :
           IF ~Has(_tools, tool_id)
               THEN /\ reply' = Returns("set_tool_enabled", << tool_id, enabled >>,
                                        BoolResult(FALSE))
                    /\ UNCHANGED _tools
               ELSE /\ _tools' = SetEnabled(_tools, tool_id, enabled)
                    /\ reply' = Returns("set_tool_enabled", << tool_id, enabled >>,
                                        BoolResult(TRUE))
    /\ UNCHANGED << _instances, instantiated,
                    pc, kwargs, outcome, raised, evaluation, tables, threads, search >>

\* a variant of Before: the item goes after the items of its own priority
BeforeLower(item, rest) ==
    SubSeq(rest, 1, Cardinality({ i \in DOMAIN rest : rest[i].priority >= item.priority }))
        \o << item >>
        \o SubSeq(rest, Cardinality({ i \in DOMAIN rest : rest[i].priority >= item.priority }) + 1,
                  Len(rest))

\* item put into the sorted rest: after the items of higher priority, before
\* the others
Before(item, rest) ==
    SubSeq(rest, 1, Cardinality({ i \in DOMAIN rest : rest[i].priority > item.priority }))
        \o << item >>
        \o SubSeq(rest, Cardinality({ i \in DOMAIN rest : rest[i].priority > item.priority }) + 1,
                  Len(rest))

\* sorted(items, key=priority, reverse=True): a stable sort, so items of equal
\* priority keep their order
RECURSIVE ByPriority(_)
ByPriority(items) ==
    IF items = << >> THEN << >>
    ELSE Before(Head(items), ByPriority(Tail(items)))

\* ToolRegistry.get_enabled_tools()
get_enabled_tools(tools) == ByPriority(SelectSeq(tools, LAMBDA t : t.enabled))

\* the ids of the configs, in order
RECURSIVE IdsOf(_)
IdsOf(configs) ==
    IF configs = << >> THEN << >> ELSE << Head(configs).id >> \o IdsOf(Tail(configs))

\* ToolPlugin.to_openai_tool() of the truthy ones among the looked-up objects
RECURSIVE OpenAITools(_)
OpenAITools(got) ==
    IF got = << >> THEN << >>
    ELSE (IF Head(got).k = "instance"
              THEN << [type |-> "function", name |-> Head(got).class.get_name] >>
              ELSE << >>) \o OpenAITools(Tail(got))

\* the tool_ids lists a caller asks get_openai_tools for
ToolIdLists ==
    { << >>, << "mock_tool" >>, << "other_tool" >>, << "nonexistent" >>,
      << "mock_tool", "other_tool" >>, << "other_tool", "mock_tool" >>,
      << "nonexistent", "mock_tool" >>, << "mock_tool", "mock_tool" >> }

\* ToolRegistry.get_openai_tools(tool_ids): the given ids, or with None the
\* enabled tools by priority
Listed(op, args, s, items) ==
    /\ Keep(s)
    /\ reply' = IF s.raised # "" THEN Raises(op, args, s.raised, "")
                ELSE Returns(op, args, ListResult(items))

get_openai_tools ==
    /\ \/ \E tool_ids \in ToolIdLists :
              Listed("get_openai_tools", << tool_ids >>,
                     GetInstances(_tools, Lookup, tool_ids),
                     OpenAITools(GetInstances(_tools, Lookup, tool_ids).got))
       \/ Listed("get_openai_tools", << "None" >>,
                 GetInstances(_tools, Lookup, IdsOf(get_enabled_tools(_tools))),
                 OpenAITools(GetInstances(_tools, Lookup,
                                          IdsOf(get_enabled_tools(_tools))).got))
    /\ UNCHANGED << _tools, pc, kwargs, outcome, raised, evaluation, tables, threads, search >>

\* the arguments dicts a caller passes to execute_tool
Arguments == { << >>, [input |-> "test"] }

\* instance.execute(**arguments): MockTool.execute returns what it made of
\* kwargs.get('input', ''); the execute of the other test tools returns {}
Execute(instance, arguments) ==
    IF instance.class.name = "MockTool"
        THEN [result |-> "processed: "
                           \o (IF "input" \in DOMAIN arguments THEN arguments.input ELSE "")]
        ELSE << >>

\* the call of a method of an instance, and a reply with the calls made
MethodCall(instance, method, arguments, returned) ==
    [instance |-> instance, method |-> method, arguments |-> arguments,
     returned |-> returned]
WithCalls(r, calls) ==
    [op |-> r.op, args |-> r.args, raised |-> r.raised, msg |-> r.msg,
     result |-> r.result, calls |-> calls]

\* a variant of Executed: execute is awaited a second time
ExecutedTwice(op, args, s) ==
    /\ Keep(s)
    /\ reply' = IF s.raised # "" THEN WithCalls(Raises(op, args, s.raised, ""), << >>)
                ELSE IF s.result.k # "instance"
                    THEN WithCalls(Raises(op, args, "ValueError", "Tool not found"), << >>)
                ELSE WithCalls(Returns(op, args, Execute(s.result, args[2])),
                               << MethodCall(s.result, "execute", args[2],
                                             Execute(s.result, args[2])),
                                  MethodCall(s.result, "execute", args[2],
                                             Execute(s.result, args[2])) >>)

\* ToolRegistry.execute_tool(tool_id, arguments): the lookup, the ValueError
\* for no instance, else what instance.execute(**arguments) returns
Executed(op, args, s) ==
    /\ Keep(s)
    /\ reply' = IF s.raised # "" THEN WithCalls(Raises(op, args, s.raised, ""), << >>)
                ELSE IF s.result.k # "instance"
                    THEN WithCalls(Raises(op, args, "ValueError", "Tool not found"), << >>)
                ELSE WithCalls(Returns(op, args, Execute(s.result, args[2])),
                               << MethodCall(s.result, "execute", args[2],
                                             Execute(s.result, args[2])) >>)

execute_tool ==
    /\ \E tool_id \in LookupIds, arguments \in Arguments :
           Executed("execute_tool", << tool_id, arguments >>,
                    GetInstance(_tools, Lookup, tool_id))
    /\ UNCHANGED << _tools, pc, kwargs, outcome, raised, evaluation, tables, threads, search >>

\* a variant of Info: every tool is reported as enabled
InfoEnabled(config, instance) ==
    [id |-> config.id, name |-> instance.class.get_name,
     description |-> instance.class.get_description,
     enabled |-> TRUE, priority |-> config.priority]

\* the info dict of a tool: id, enabled and priority of its config, name and
\* description of its instance
Info(config, instance) ==
    [id |-> config.id, name |-> instance.class.get_name,
     description |-> instance.class.get_description,
     enabled |-> config.enabled, priority |-> config.priority]

\* ToolRegistry.list_tools_info(): one info per config whose lookup gave an
\* instance, by priority
RECURSIVE ToolsInfo(_, _)
ToolsInfo(configs, got) ==
    IF configs = << >> \/ got = << >> THEN << >>
    ELSE (IF Head(got).k = "instance"
              THEN << Info(Head(configs), Head(got)) >>
              ELSE << >>) \o ToolsInfo(Tail(configs), Tail(got))

list_tools_info ==
    /\ Listed("list_tools_info", << >>, GetInstances(_tools, Lookup, IdsOf(_tools)),
              ByPriority(ToolsInfo(_tools, GetInstances(_tools, Lookup, IdsOf(_tools)).got)))
    /\ UNCHANGED << _tools, pc, kwargs, outcome, raised, evaluation, tables, threads, search >>

RegistryNext ==
    \/ register
    \/ get_instance
    \/ set_tool_enabled
    \/ get_openai_tools
    \/ execute_tool
    \/ list_tools_info

RegistrySpec == Init /\ [][RegistryNext]_vars

\* ------------------------------------------------------------------------
\* WebSearchTool.execute
\* ------------------------------------------------------------------------
\* how many results the search backend returns
MaxResults == 2

\* the objects a caller passes as query: strings, None and integers
QueryValues ==
    { [t |-> "str", s |-> ""], [t |-> "str", s |-> "test query"],
      [t |-> "NoneType", s |-> "None"], [t |-> "int", s |-> "0"], [t |-> "int", s |-> "7"] }

\* the keyword arguments of the calls made
SearchCalls ==
    { << >> }
        \cup { [query |-> q] : q \in QueryValues }
        \cup { [max_results |-> m] : m \in {5, 10} }
        \cup { [query |-> q, max_results |-> m] : q \in QueryValues, m \in {5, 10} }

\* d.get(key, default)
DictGet(d, key, default) == IF key \in DOMAIN d THEN d[key] ELSE default

\* not query
Falsy(q) == q.t = "NoneType" \/ (q.t = "str" /\ q.s = "") \/ (q.t = "int" /\ q.s = "0")

\* what ddgs.text yields: dicts with all, some or none of the fields, and an
\* object that is no dict
RawResults ==
    { [title |-> "Test Result 1", href |-> "https://example.com/1",
       body |-> "This is a test result snippet."],
      [title |-> "Only title"],
      << >>,
      [nodict |-> "None"] }

\* what the backend does in a call: the import of ddgs fails, the search
\* raises, or it returns a list of results
Backends ==
    { [kind |-> "raises", at |-> "import", class |-> "ImportError",
       msg |-> "No module named 'ddgs'", results |-> << >>],
      [kind |-> "raises", at |-> "text", class |-> "Exception",
       msg |-> "Network error", results |-> << >>],
      [kind |-> "raises", at |-> "text", class |-> "TimeoutError",
       msg |-> "", results |-> << >>] }
        \cup { [kind |-> "returns", at |-> "text", class |-> "", msg |-> "", results |-> r] :
                 r \in SeqsUpTo(RawResults, MaxResults) }

\* a variant of Caught: the clause names the class it handles
CaughtByName(class) == class = "Exception"

\* except Exception: every exception class of the backend and of the body
\* derives from Exception
Caught(class) == class \in {"Exception", "ImportError", "TimeoutError", "AttributeError"}

\* the formatted result of a raw one
Formatted(raw) ==
    [title |-> DictGet(raw, "title", "Untitled"),
     url |-> DictGet(raw, "href", ""),
     snippet |-> DictGet(raw, "body", "")]

\* the try block: what it returns, or the exception that leaves it
SearchTry(query, max_results, backend) ==
    IF backend.kind = "raises"
        THEN [class |-> backend.class, msg |-> backend.msg, results |-> << >>]
    ELSE IF \E i \in DOMAIN backend.results : "nodict" \in DOMAIN backend.results[i]
        THEN [class |-> "AttributeError",
              msg |-> "'NoneType' object has no attribute 'get'", results |-> << >>]
    ELSE [class |-> "", msg |-> "",
          results |-> [i \in DOMAIN backend.results |-> Formatted(backend.results[i])]]

\* the call leaves the try statement with try
SearchHandled(kw, query, try, searches, backend) ==
    IF try.class = ""
        THEN [pc |-> "returned", kwargs |-> kw, raised |-> "", searches |-> searches,
              backend |-> backend,
              outcome |-> [query |-> query, results |-> try.results,
                           result_count |-> Len(try.results)]]
    ELSE IF Caught(try.class)
        THEN [pc |-> "returned", kwargs |-> kw, raised |-> "", searches |-> searches,
              backend |-> backend,
              outcome |-> [error |-> "Search failed: " \o try.msg, query |-> query,
                           results |-> << >>]]
    ELSE [pc |-> "raised", kwargs |-> kw, raised |-> try.class, searches |-> searches,
          backend |-> backend, outcome |-> << >>]

\* WebSearchTool.execute(**kwargs) with the backend behaving as backend; a
\* call that returns before the try statement does not reach the backend
SearchBody(kw, query, max_results, backend) ==
    IF Falsy(query)
        THEN [pc |-> "returned", kwargs |-> kw, raised |-> "", searches |-> << >>,
              backend |-> NoBackend,
              outcome |-> [error |-> "No search query provided", results |-> << >>]]
    ELSE SearchHandled(kw, query, SearchTry(query, max_results, backend),
                       IF backend.at = "text"
                           THEN << [query |-> query, max_results |-> max_results] >>
                           ELSE << >>,
                       backend)

\* the registry and the calculator, which a search leaves alone
others == << pc, kwargs, outcome, raised, evaluation, tables, threads, registry >>

SearchInvoke ==
    /\ search.pc = "idle"
    /\ \E kw \in SearchCalls : search' = [search EXCEPT !.pc = "running", !.kwargs = kw]
    /\ UNCHANGED others

SearchExecute ==
    /\ search.pc = "running"
    /\ \E backend \in Backends :
           search' = SearchBody(search.kwargs,
                                DictGet(search.kwargs, "query", [t |-> "str", s |-> ""]),
                                DictGet(search.kwargs, "max_results", 5), backend)
    /\ UNCHANGED others

SearchFinish ==
    /\ search.pc \in {"returned", "raised"}
    /\ search' = NoSearch
    /\ UNCHANGED others

SearchNext ==
    \/ SearchInvoke
    \/ SearchExecute
    \/ SearchFinish

SearchSpec == Init /\ [][SearchNext]_vars

\* ------------------------------------------------------------------------
\* Properties of execute and safe_eval
\* ------------------------------------------------------------------------
\* the call returned after safe_eval ran
Ran == pc = "returned" /\ evaluation.called

Succeeded == Ran /\ evaluation.r.st = "ok"

\* the lexemes of the last call's expression
Toks == kwargs.expression.toks

\* C1: execute never raises past the tool boundary: every call returns, no
\* exception leaves it, and a call that did not complete an evaluation
\* (expression missing or empty, or safe_eval failing in any way) returns an
\* outcome with a non-empty error message.
C1_NeverRaises ==
    /\ pc # "raised"
    /\ raised = ""
    /\ pc = "running" => ExecuteBody(kwargs).pc = "returned"
    /\ pc = "returned" /\ ~(evaluation.called /\ evaluation.r.st = "ok")
          => /\ "error" \in DOMAIN outcome
             /\ outcome.error.text # ""

\* a failure that only the last except clause catches was returned as an error
C1_Witness ==
    /\ Ran
    /\ evaluation.r.exc = "TypeError"
    /\ "error" \in DOMAIN outcome
    /\ outcome.error.text = "Evaluation failed"

\* C2: every returned outcome has the key expression and exactly one of result
\* and error; result is there exactly when safe_eval, run on the expression
\* of the call, completes, and it is then the value safe_eval returned.
C2_OutcomeShape ==
    pc = "returned" =>
        /\ "expression" \in DOMAIN outcome
        /\ DOMAIN outcome \subseteq {"expression", "result", "error"}
        /\ ("result" \in DOMAIN outcome) # ("error" \in DOMAIN outcome)
        /\ ("result" \in DOMAIN outcome)
              <=> (/\ Truthy(GetExpression(kwargs))
                   /\ SafeEvalCall(GetExpression(kwargs)).r.st = "ok")
        /\ "result" \in DOMAIN outcome
              => outcome.result = SafeEvalCall(GetExpression(kwargs)).r.v

C2_Witness ==
    /\ pc = "returned"
    /\ Toks = << "2", "+", "2" >>
    /\ "result" \in DOMAIN outcome
    /\ outcome.result = PyInt(4)
    /\ outcome.expression = StrArg(Toks)

\* the number of elements of a tree: its nodes and the keywords of its calls;
\* the target of a call is part of the Call node
RECURSIVE Elements(_)
RECURSIVE ElementsOf(_)
ElementsOf(nodes) ==
    IF nodes = << >> THEN 0 ELSE Elements(nodes[1]) + ElementsOf(Tail(nodes))

Elements(node) ==
    CASE node.t = "Expression" -> 1 + Elements(node.body)
      [] node.t \in {"Constant", "Name"} -> 1
      [] node.t = "BinOp" -> 1 + Elements(node.left) + Elements(node.right)
      [] node.t = "UnaryOp" -> 1 + Elements(node.operand)
      [] node.t = "Call" -> 1 + ElementsOf(node.args) + ElementsOf(node.keywords)
      [] node.t \in {"keyword", "Starred", "Attribute"} -> 1 + Elements(node.value)
      [] node.t \in {"List", "Tuple"} -> 1 + ElementsOf(node.elts)
      [] node.t = "Subscript" -> 1 + Elements(node.value) + Elements(node.slice)
      [] node.t = "Compare" -> 1 + Elements(node.left) + ElementsOf(node.comparators)
      [] OTHER -> 0

\* the tree is built from the node kinds of the closed grammar only (which
\* literals and identifiers are values is the matter of C4 and C5)
RECURSIVE InGrammar(_)
InGrammar(node) ==
    CASE node.t = "Expression" -> InGrammar(node.body)
      [] node.t \in {"Constant", "Name"} -> TRUE
      [] node.t = "BinOp" ->
           /\ node.op \in {"Add", "Sub", "Mult", "Div", "FloorDiv", "Mod", "Pow"}
           /\ InGrammar(node.left)
           /\ InGrammar(node.right)
      [] node.t = "UnaryOp" -> node.op \in {"UAdd", "USub"} /\ InGrammar(node.operand)
      [] node.t = "Call" ->
           /\ node.func.t = "Name"
           /\ node.keywords = << >>
           /\ \A i \in DOMAIN node.args : InGrammar(node.args[i])
      [] node.t \in {"List", "Tuple"} -> \A i \in DOMAIN node.elts : InGrammar(node.elts[i])
      [] OTHER -> FALSE

\* the nodes the tree walk entered
Evals(log) == Cardinality({i \in DOMAIN log : log[i].ev = "eval"})

\* C3: an evaluation that ends in a result had an expression of the closed
\* grammar only (so every expression with an element outside it fails), and
\* the tree walk entered every element of its tree: none was skipped.
C3_ClosedGrammar ==
    Succeeded =>
        /\ InGrammar(evaluation.tree)
        /\ Elements(evaluation.tree) = Evals(evaluation.log)

\* an integer, a float, or a list or tuple of them
Numeric(v) ==
    \/ v.k \in {"int", "float"}
    \/ v.k \in {"list", "tuple"} /\ \A i \in DOMAIN v.items : v.items[i].k \in {"int", "float"}

\* C4: the value of a successful evaluation, and every value passed to an
\* operator or to a function of the table, is an integer, a float, or a list
\* or tuple of integers and floats.
C4_NumericDomain ==
    /\ Succeeded => Numeric(evaluation.r.v)
    /\ Ran => \A i \in DOMAIN evaluation.log :
                 evaluation.log[i].ev = "apply"
                     => \A j \in DOMAIN evaluation.log[i].args :
                            Numeric(evaluation.log[i].args[j])

\* the identifiers a tree uses as values: its Name nodes, but for the targets
\* of its calls
RECURSIVE ValueNames(_)
RECURSIVE ValueNamesOf(_)
ValueNamesOf(nodes) ==
    IF nodes = << >> THEN {} ELSE ValueNames(nodes[1]) \cup ValueNamesOf(Tail(nodes))

ValueNames(node) ==
    CASE node.t = "Expression" -> ValueNames(node.body)
      [] node.t = "Name" -> {node.id}
      [] node.t = "BinOp" -> ValueNames(node.left) \cup ValueNames(node.right)
      [] node.t = "UnaryOp" -> ValueNames(node.operand)
      [] node.t = "Call" ->
           (IF node.func.t = "Name" THEN {} ELSE ValueNames(node.func))
               \cup ValueNamesOf(node.args) \cup ValueNamesOf(node.keywords)
      [] node.t \in {"keyword", "Starred", "Attribute"} -> ValueNames(node.value)
      [] node.t \in {"List", "Tuple"} -> ValueNamesOf(node.elts)
      [] node.t = "Subscript" -> ValueNames(node.value) \cup ValueNames(node.slice)
      [] node.t = "Compare" -> ValueNames(node.left) \cup ValueNamesOf(node.comparators)
      [] OTHER -> {}

\* the case-folded identifier is no key of the constant table
NoConstant(id) == Lower(id) \notin {"pi", "e", "tau"}

\* C5 as stated: an expression that uses, as a value, an identifier that is no
\* key of the constant table fails with ValueError 'Unknown variable' (checked
\* on the expressions of the closed grammar whose walk does not end at the
\* target of a call).
C5_EveryIdentifier ==
    Ran /\ evaluation.tree # NoNode
        /\ InGrammar(evaluation.tree)
        /\ evaluation.r.msg \notin {"Unknown function", "Only simple function calls are allowed"}
        /\ (\E id \in ValueNames(evaluation.tree) : NoConstant(id))
        => /\ evaluation.r.st = "raise"
           /\ evaluation.r.exc = "ValueError"
           /\ evaluation.r.msg = "Unknown variable"

\* C5, amended: every identifier the tree walk evaluates as a value that is no
\* key of the constant table ends the walk there with ValueError 'Unknown
\* variable: <name>', which execute reports; the function table and the host's
\* names resolve nothing.
C5_EvaluatedIdentifier ==
    Ran => \A i \in DOMAIN evaluation.log :
               (/\ evaluation.log[i].ev = "eval"
                /\ evaluation.log[i].t = "Name"
                /\ NoConstant(evaluation.log[i].name))
                   => /\ i = Len(evaluation.log)
                      /\ evaluation.r
                             = Raise("ValueError", "Unknown variable", evaluation.log[i].name)
                      /\ outcome.error
                             = ErrorMessage("Unknown variable", evaluation.log[i].name)

\* the name of a function of the table, used as a value, is an unknown variable
C5_Witness ==
    /\ Ran
    /\ Toks = << "abs" >>
    /\ "error" \in DOMAIN outcome
    /\ outcome.error = ErrorMessage("Unknown variable", "abs")

\* C6: a call whose target is no bare identifier, or whose case-folded target
\* is no key of the function table, ends the walk at the Call node with a
\* ValueError (its arguments are not evaluated and nothing is applied for it);
\* every function safe_eval applies is a key of the function table.
C6_OnlyTableFunctions ==
    Ran => \A i \in DOMAIN evaluation.log :
               /\ (/\ evaluation.log[i].ev = "eval"
                   /\ evaluation.log[i].t = "Call"
                   /\ Lower(evaluation.log[i].name) \notin FunctionNames)
                      => /\ i = Len(evaluation.log)
                         /\ evaluation.r.st = "raise"
                         /\ evaluation.r.exc = "ValueError"
                         /\ evaluation.r.msg \in {"Unknown function",
                                                  "Only simple function calls are allowed"}
                         /\ "error" \in DOMAIN outcome
               /\ (evaluation.log[i].ev = "apply" /\ evaluation.log[i].t = "function")
                      => evaluation.log[i].name \in FunctionNames

\* a function of the table was applied, then a call of an unknown one failed
C6_Witness ==
    /\ Ran
    /\ Toks = << "abs", "(", "1", ")", "+", "evil", "(", "2", ")" >>
    /\ "error" \in DOMAIN outcome
    /\ outcome.error = ErrorMessage("Unknown function", "evil")
    /\ evaluation.log[Len(evaluation.log)].t = "Call"

\* an operator application that divides by a real zero
ZeroDivisor(event) ==
    /\ event.ev = "apply"
    /\ event.t = "operator"
    /\ event.name \in {"Div", "FloorDiv", "Mod"}
    /\ event.args[2].k \in {"int", "bool", "float"}
    /\ event.args[2].d # 0
    /\ event.args[2].n = 0

DivisionByZeroReported ==
    /\ evaluation.r.st = "raise"
    /\ evaluation.r.exc = "ZeroDivisionError"
    /\ "error" \in DOMAIN outcome
    /\ outcome.error.text = "Division by zero"

IntegerLexemes == {"0", "1", "2", "3", "4", "5", "15", "16", "17"}

ArithmeticOperatorLexemes == {"+", "-", "*", "/", "//", "%", "**"}

Count(toks, tok) == Cardinality({i \in DOMAIN toks : toks[i] = tok})

\* the nesting depth of position i
Depth(toks, i) ==
    Cardinality({j \in 1..(i - 1) : toks[j] \in {"(", "["}})
        - Cardinality({j \in 1..(i - 1) : toks[j] \in {")", "]"}})

\* an input that is not exactly one well-formed expression, of the kinds C8
\* lists: a missing operand, an unbalanced parenthesis, stray tokens after a
\* complete expression, an empty pair of parentheses that is no call's
Malformed(toks) ==
    \/ toks # << >> /\ toks[Len(toks)] \in ArithmeticOperatorLexemes
    \/ Count(toks, "(") # Count(toks, ")")
    \/ \E i \in DOMAIN toks : toks[i] = "," /\ Depth(toks, i) = 0
    \/ \E i \in 1..(Len(toks) - 1) :
           toks[i] \in NumberLexemes /\ toks[i + 1] \in NumberLexemes
    \/ \E i \in 1..(Len(toks) - 1) :
           /\ toks[i] = "(" /\ toks[i + 1] = ")"
           /\ (i = 1 \/ toks[i - 1] \in ArithmeticOperatorLexemes \cup {"(", "[", ","})

\* C8: an input that is not exactly one well-formed expression fails with
\* ValueError 'Invalid expression syntax', and no node is evaluated.
C8_ParseError ==
    Ran /\ kwargs.expression.type = "str" /\ Malformed(Toks)
        => /\ evaluation.r = Raise("ValueError", "Invalid expression syntax", "")
           /\ evaluation.log = << >>

\* The value of a formula of integer literals, parentheses and operators under
\* standard precedence, found by splitting the formula at its loosest
\* operator: the last + or - outside parentheses that has a left operand, else
\* the last * / // %, else a leading sign, else the first **.
Invalid == [st |-> "invalid"]

Applied(op, l, r) ==
    IF l.st = "invalid" \/ r.st = "invalid" THEN Invalid
    ELSE IF l.st # "ok" THEN l
    ELSE IF r.st # "ok" THEN r
    ELSE BinaryOperator(BinOpClass(op), l.v, r.v)

Signed(op, o) == IF o.st # "ok" THEN o ELSE UnaryOperator(UnaryOpClass(op), o.v)

\* the positions of the binary operators of ops outside parentheses
Splits(toks, ops) ==
    {i \in 2..(Len(toks) - 1) :
        /\ toks[i] \in ops
        /\ toks[i - 1] \in IntegerLexemes \cup {")"}
        /\ Depth(toks, i) = 0}

Last(S) == CHOOSE i \in S : \A j \in S : j <= i

First(S) == CHOOSE i \in S : \A j \in S : i <= j

RECURSIVE Value(_)
SplitAt(toks, i) ==
    Applied(toks[i], Value(SubSeq(toks, 1, i - 1)), Value(SubSeq(toks, i + 1, Len(toks))))

Value(toks) ==
    IF toks = << >> THEN Invalid
    ELSE IF Splits(toks, {"+", "-"}) # {} THEN SplitAt(toks, Last(Splits(toks, {"+", "-"})))
    ELSE IF Splits(toks, {"*", "/", "//", "%"}) # {}
    THEN SplitAt(toks, Last(Splits(toks, {"*", "/", "//", "%"})))
    ELSE IF toks[1] \in {"+", "-"} THEN Signed(toks[1], Value(Tail(toks)))
    ELSE IF Splits(toks, {"**"}) # {} THEN SplitAt(toks, First(Splits(toks, {"**"})))
    ELSE IF Len(toks) >= 3 /\ toks[1] = "(" /\ toks[Len(toks)] = ")"
    THEN Value(SubSeq(toks, 2, Len(toks) - 1))
    ELSE IF Len(toks) = 1 /\ toks[1] \in IntegerLexemes THEN Ok(NumberValue(toks[1]))
    ELSE Invalid

\* C9: for an expression of integer literals, parentheses and the operators
\* of the table, safe_eval's outcome is the value of the formula under standard
\* precedence; -2 ** 2 is -4, 2 ** -2 is 0.25, 2 + 3 * 4 is 14 and
\* (2 + 3) * 4 is 20.
C9_StandardPrecedence ==
    Ran /\ kwargs.expression.type = "str"
        /\ (\A i \in DOMAIN Toks :
               Toks[i] \in IntegerLexemes \cup ArithmeticOperatorLexemes \cup {"(", ")"})
        => /\ Value(Toks).st # "invalid" => evaluation.r = Value(Toks)
           /\ Toks = << "-", "2", "**", "2" >> => evaluation.r = Ok(PyInt(-4))
           /\ Toks = << "2", "**", "-", "2" >> => evaluation.r = Ok(PyFloatRaw(1, 4))
           /\ Toks = << "2", "+", "3", "*", "4" >> => evaluation.r = Ok(PyInt(14))
           /\ Toks = << "(", "2", "+", "3", ")", "*", "4" >> => evaluation.r = Ok(PyInt(20))

C9_Witness ==
    /\ Ran
    /\ Toks = << "2", "-", "3", "*", "-", "2", "**", "2" >>
    /\ Value(Toks) = Ok(PyInt(14))
    /\ "result" \in DOMAIN outcome
    /\ outcome.result = PyInt(14)

\* C10: a literal without fraction and exponent is an integer; the operator at
\* the root of the expression, applied to integers and floats, yields an
\* integer for two integers under + - * // %, a float under /, a float when an
\* operand is a float, and under a sign the kind of its operand.
C10_KindPromotion ==
    Succeeded =>
        /\ Len(Toks) = 1 /\ Toks[1] \in IntegerLexemes => evaluation.r.v.k = "int"
        /\ evaluation.tree.body.t \in {"BinOp", "UnaryOp"} =>
               LET args == evaluation.log[Len(evaluation.log)].args
                   op == evaluation.log[Len(evaluation.log)].name
                   kind == evaluation.r.v.k
               IN  (\A j \in DOMAIN args : args[j].k \in {"int", "float"}) =>
                       /\ (/\ Len(args) = 2
                           /\ \A j \in DOMAIN args : args[j].k = "int"
                           /\ op \in {"Add", "Sub", "Mult", "FloorDiv", "Mod"}) => kind = "int"
                       /\ op = "Div" => kind = "float"
                       /\ (\E j \in DOMAIN args : args[j].k = "float") => kind = "float"
                       /\ Len(args) = 1 => kind = args[1].k

\* ------------------------------------------------------------------------
\* Case of identifiers
\* ------------------------------------------------------------------------
\* the spellings of one identifier that differ in letter case only
Spellings ==
    { {"pi", "PI", "Pi"}, {"x", "X"}, {"max", "MAX"}, {"sqrt", "SQRT"} }

Respellings(tok) == UNION { c \in Spellings : tok \in c }

\* the value, or the fact and the kind of the failure
SameOutcome(a, b) == a.r.st = b.r.st /\ a.r.v = b.r.v /\ a.r.exc = b.r.exc

C14_OverflowReported ==
    /\ Succeeded /\ (\A i \in 1..Len(Toks) : Toks[i] # "1e999") =>
          /\ ~IsInf(evaluation.r.v)
          /\ \A j \in DOMAIN evaluation.r.v.items : ~IsInf(evaluation.r.v.items[j])
    /\ Ran /\ evaluation.r.exc = "OverflowError" =>
          /\ "error" \in DOMAIN outcome
          /\ outcome.error.text = "Result too large"

\* ------------------------------------------------------------------------
\* Argument counts
\* ------------------------------------------------------------------------
\* the numbers of arguments the functions of the table accept
Accepts(f, n) ==
    CASE f \in {"min", "max"} -> n >= 1
      [] f \in {"round", "sum", "log"} -> n \in {1, 2}
      [] f = "pow" -> n \in {2, 3}
      [] OTHER -> n = 1

\* C15: a function of the table applied to a number of arguments it does not
\* accept (sqrt(1, 2), sqrt()) yields no value: the walk ends there with an
\* error about the number of arguments, safe_eval returns nothing, and
\* execute returns an error, 'Evaluation failed', and no result.
C15_ArityMismatch ==
    Ran =>
        \A i \in DOMAIN evaluation.log :
            LET event == evaluation.log[i]
            IN  /\ event.ev = "apply"
                /\ event.t = "function"
                /\ ~Accepts(event.name, Len(event.args))
                => /\ i = Len(evaluation.log)
                   /\ evaluation.r.st = "raise"
                   /\ evaluation.r.exc = "TypeError"
                   /\ evaluation.r.msg = "wrong number of arguments"
                   /\ DOMAIN outcome = {"expression", "error"}
                   /\ outcome.error.text = "Evaluation failed"

\* sqrt was applied to two arguments and the call returned an error
C15_Witness ==
    /\ Ran
    /\ Toks = << "sqrt", "(", "1", ",", "2", ")" >>
    /\ evaluation.log[Len(evaluation.log)]
          = ApplyEvent("function", "sqrt", << PyInt(1), PyInt(2) >>)
    /\ DOMAIN outcome = {"expression", "error"}
    /\ outcome.error.text = "Evaluation failed"

\* ------------------------------------------------------------------------
\* Aggregate functions
\* ------------------------------------------------------------------------
IntegersOf(xs) == { NumberValue(xs[i]).n : i \in DOMAIN xs }

RECURSIVE Total(_)
Total(xs) == IF xs = << >> THEN 0 ELSE NumberValue(xs[1]).n + Total(Tail(xs))

\* the least, the greatest or the total of the integers that xs spells
Aggregate(f, xs) ==
    CASE f = "min" -> CHOOSE m \in IntegersOf(xs) : \A n \in IntegersOf(xs) : m <= n
      [] f = "max" -> CHOOSE m \in IntegersOf(xs) : \A n \in IntegersOf(xs) : n <= m
      [] f = "sum" -> Total(xs)

\* C16: min, max and sum take their numbers as one sequence and as separate
\* arguments alike: for every sequence xs of several integers, the call on
\* the list of xs and the call on xs as separate arguments both succeed, with
\* the least, the greatest or the total of xs.
C16_BothCallShapes ==
    Ran =>
        \A f \in {"min", "max", "sum"} :
            \A xs \in SeqsUpTo({"1", "3", "5"}, MaxAggregateLen) :
                /\ Len(xs) >= 2
                /\ \/ Toks = << f, "(" >> \o Commas(xs) \o << ")" >>
                   \/ Toks = << f, "(", "[" >> \o Commas(xs) \o << "]", ")" >>
                => evaluation.r = Ok(PyInt(Aggregate(f, xs)))

\* ------------------------------------------------------------------------
\* Termination and depth of the walk
\* ------------------------------------------------------------------------
RECURSIVE Height(_)
RECURSIVE HeightOf(_)
\* the height of the tallest of nodes
HeightOf(nodes) ==
    IF nodes = << >> THEN 0
    ELSE LET h == Height(nodes[1])
             t == HeightOf(Tail(nodes))
         IN  IF h >= t THEN h ELSE t

\* the number of nodes on the longest path from node down to a leaf
Height(node) ==
    1 + HeightOf(
            CASE node.t = "Expression" -> << node.body >>
              [] node.t = "BinOp" -> << node.left, node.right >>
              [] node.t = "UnaryOp" -> << node.operand >>
              [] node.t = "Call" -> << node.func >> \o node.args \o node.keywords
              [] node.t \in {"keyword", "Starred", "Attribute"} -> << node.value >>
              [] node.t \in {"List", "Tuple"} -> node.elts
              [] node.t = "Subscript" -> << node.value, node.slice >>
              [] node.t = "Compare" -> << node.left >> \o node.rest
              [] OTHER -> << >>)

\* the number of nodes the walk entered
Entered == Cardinality({i \in DOMAIN evaluation.log : evaluation.log[i].ev = "eval"})

\* the body b of a call ended by returning a result or an error
Ends(b) ==
    /\ b.pc = "returned"
    /\ DOMAIN b.outcome \in {{"expression", "result"}, {"expression", "error"}, {"error"}}

Returned(t) == threads[t].pc = "returned"

HandlerNamed(name) == CHOOSE h \in Handlers : h.name = name

\* C18: register raises ValueError for an invalid configuration, and the
\* message is that of the first failing check in the order empty id, missing
\* handler, handler that is not a class, class that does not extend
\* ToolPlugin; a valid configuration is accepted; a rejected call leaves the
\* registered tools, every config and every cached instance as they were
C18_RejectsInOrder ==
    [][reply'.op = "register" =>
          /\ reply'.raised \in {"", "ValueError"}
          /\ reply'.msg =
                 (IF reply'.args[1] = "" THEN "id is required"
                  ELSE IF ~HandlerNamed(reply'.args[2]).truthy THEN "handler is required"
                  ELSE IF ~HandlerNamed(reply'.args[2]).type THEN "must be a class"
                  ELSE IF ~HandlerNamed(reply'.args[2]).subclass THEN "must extend ToolPlugin"
                  ELSE "")
          /\ (reply'.raised = "") = (reply'.msg = "")
          /\ reply'.raised # "" => (_tools' = _tools /\ _instances' = _instances)]_vars

\* a call with a class that does not extend ToolPlugin, for an id that is
\* registered and has a cached instance, was rejected beside a second tool
C18_Witness ==
    /\ reply.op = "register"
    /\ reply.raised = "ValueError"
    /\ reply.msg = "must extend ToolPlugin"
    /\ Len(_tools) = 2
    /\ reply.args[1] \in DOMAIN _instances

\* the registry's last step was a lookup of id by op
LookedUp(op, id) == reply'.op = op /\ reply'.args[1] = id

\* what every step does to the cache: register leaves its id without an
\* instance and every other id's instance alone; any other call keeps every
\* cached instance, and each id it adds to the cache costs one instantiation
CachePreserved ==
    /\ reply'.op = "register" /\ reply'.raised = "" =>
           /\ reply'.args[1] \notin DOMAIN _instances'
           /\ instantiated' = instantiated
           /\ \A id \in DOMAIN _instances \ {reply'.args[1]} :
                  id \in DOMAIN _instances' /\ _instances'[id] = _instances[id]
    /\ reply'.op # "register" =>
           /\ \A id \in DOMAIN _instances :
                  id \in DOMAIN _instances' /\ _instances'[id] = _instances[id]
           /\ instantiated' - instantiated =
                  Cardinality(DOMAIN _instances' \ DOMAIN _instances)

\* a lookup of a registered id returned the instance that is cached for it
\* after the call, which is the one cached before the call if there was one
ReturnedCached(id) ==
    /\ reply'.raised = ""
    /\ id \in DOMAIN _instances'
    /\ IF reply'.op = "execute_tool"
           THEN /\ reply'.calls # << >>
                /\ \A i \in DOMAIN reply'.calls : reply'.calls[i].instance = _instances'[id]
           ELSE reply'.result = _instances'[id]

\* a lookup of an id that is not registered gave None (execute_tool: the
\* ValueError for it) and created nothing
ReturnedNone ==
    /\ reply'.result = NoneResult
    /\ reply'.raised = (IF reply'.op = "execute_tool" THEN "ValueError" ELSE "")
    /\ _instances' = _instances
    /\ instantiated' = instantiated

C20_SetsOnlyTheFlag ==
    [][\A tool_id \in LookupIds, enabled \in BOOLEAN :
           reply'.op = "set_tool_enabled" /\ reply'.args = << tool_id, enabled >> =>
               /\ reply'.raised = ""
               /\ reply'.result = BoolResult(Has(_tools, tool_id))
               /\ _instances' = _instances
               /\ instantiated' = instantiated
               /\ Len(_tools') = Len(_tools)
               /\ \A i \in DOMAIN _tools :
                      IF _tools[i].id = tool_id
                          THEN _tools'[i] = [id |-> tool_id,
                                             handler |-> _tools[i].handler,
                                             priority |-> _tools[i].priority,
                                             enabled |-> enabled]
                          ELSE _tools'[i] = _tools[i]]_vars

\* a tool with a cached instance was disabled beside a second tool that is
\* still enabled
C20_Witness ==
    /\ reply.op = "set_tool_enabled"
    /\ reply.result = BoolResult(TRUE)
    /\ reply.args[2] = FALSE
    /\ reply.args[1] \in DOMAIN _instances
    /\ Len(_tools) = 2
    /\ \E i \in DOMAIN _tools : _tools[i].id # reply.args[1] /\ _tools[i].enabled
    /\ ~ConfigOf(_tools, reply.args[1]).enabled

\* the place of id in the dict
Position(tools, id) == CHOOSE i \in DOMAIN tools : tools[i].id = id

\* listing holds exactly the enabled configs of tools, each once, by priority
\* from the highest to the lowest, configs of equal priority in the order of
\* the dict (the order in which their ids were first registered)
EnabledByPriority(tools, listing) ==
    /\ \A i \in DOMAIN listing :
           listing[i].enabled /\ \E j \in DOMAIN tools : tools[j] = listing[i]
    /\ \A j \in DOMAIN tools :
           tools[j].enabled =>
               Cardinality({ i \in DOMAIN listing : listing[i].id = tools[j].id }) = 1
    /\ Len(listing) = Cardinality({ j \in DOMAIN tools : tools[j].enabled })
    /\ \A i, k \in DOMAIN listing :
           i < k =>
               \/ listing[i].priority > listing[k].priority
               \/ /\ listing[i].priority = listing[k].priority
                  /\ Position(tools, listing[i].id) < Position(tools, listing[k].id)

\* the definitions of the tools of listing, in its order
DefinitionsOf(listing) ==
    [i \in DOMAIN listing |-> [type |-> "function", name |-> listing[i].handler.get_name]]

\* the last step was get_openai_tools() without ids
DefaultListing == reply'.op = "get_openai_tools" /\ reply'.args = << "None" >>

NotFound ==
    /\ reply'.raised = "ValueError"
    /\ reply'.msg = "Tool not found"
    /\ reply'.calls = << >>
    /\ instantiated' = instantiated
    /\ _instances' = _instances
    /\ _tools' = _tools

\* execute_tool called execute of the instance cached for id once, with the
\* arguments it was given, and returned what execute returned
ExecutedOnce(id, arguments) ==
    /\ reply'.raised = ""
    /\ id \in DOMAIN _instances'
    /\ id \in DOMAIN _instances => _instances'[id] = _instances[id]
    /\ reply'.calls = << MethodCall(_instances'[id], "execute", arguments, reply'.result) >>
    /\ _tools' = _tools

OnePerTool(tools, instances, infos) ==
    /\ Len(infos) = Len(tools)
    /\ \A j \in DOMAIN tools :
           /\ tools[j].id \in DOMAIN instances
           /\ Cardinality({ i \in DOMAIN infos : infos[i].id = tools[j].id }) = 1
           /\ \E i \in DOMAIN infos :
                  infos[i] = [id |-> tools[j].id,
                              name |-> instances[tools[j].id].class.get_name,
                              description |-> instances[tools[j].id].class.get_description,
                              enabled |-> tools[j].enabled,
                              priority |-> tools[j].priority]
    /\ \A i, k \in DOMAIN infos : i < k => infos[i].priority >= infos[k].priority

Query == DictGet(search.kwargs, "query", [t |-> "str", s |-> ""])

\* C24: WebSearchTool.execute never raises.  With a missing or empty query
\* it returns an outcome with an error and an empty results list and does
\* no search; when the backend fails with an exception it returns an
\* outcome with an error that contains the exception's message, the query
\* as given, and an empty results list; an outcome without an error has a
\* result_count equal to the length of its results
C24_SearchNeverRaises ==
    /\ search.pc # "raised"
    /\ search.raised = ""
    /\ search.pc = "returned" =>
           /\ "results" \in DOMAIN search.outcome
           /\ Falsy(Query) =>
                  /\ "error" \in DOMAIN search.outcome
                  /\ search.outcome.results = << >>
                  /\ search.searches = << >>
           /\ search.backend.kind = "raises" =>
                  /\ "error" \in DOMAIN search.outcome
                  /\ search.outcome.error = "Search failed: " \o search.backend.msg
                  /\ search.outcome.query = Query
                  /\ search.outcome.results = << >>
           /\ "error" \notin DOMAIN search.outcome =>
                  /\ search.backend.kind = "returns"
                  /\ search.outcome.result_count = Len(search.outcome.results)
                  /\ Len(search.outcome.results) = Len(search.backend.results)

\* a search whose ddgs import failed returned the error with the query
C24_Witness ==
    /\ search.pc = "returned"
    /\ search.backend.class = "ImportError"
    /\ search.outcome.error = "Search failed: No module named 'ddgs'"
    /\ search.outcome.query = [t |-> "str", s |-> "test query"]
    /\ search.outcome.results = << >>

\* ------------------------------------------------------------------------
\* Order of evaluation
\* ------------------------------------------------------------------------
\* the index of the first of nodes whose evaluation fails, 0 when none does
FirstFailing(nodes) ==
    IF \E i \in DOMAIN nodes : Eval(nodes[i]).r.st # "ok"
        THEN CHOOSE i \in DOMAIN nodes :
                 /\ Eval(nodes[i]).r.st # "ok"
                 /\ \A j \in 1..(i - 1) : Eval(nodes[j]).r.st = "ok"
        ELSE 0

\* the expression of the call is one call of a name that is not in the
\* function table
UnknownCall ==
    /\ Ran
    /\ evaluation.tree # NoNode
    /\ evaluation.tree.body.t = "Call"
    /\ evaluation.tree.body.func.t = "Name"
    /\ Lower(evaluation.tree.body.func.id) \notin FunctionNames

\* C26: the arguments of a call are evaluated before its name is resolved:
\* a call of a name that is not in the function table, one of whose
\* arguments fails, reports the failure of its first failing argument, and
\* reports the unknown function only when every argument evaluated
C26_ArgumentsBeforeName ==
    UnknownCall =>
        IF FirstFailing(evaluation.tree.body.args) = 0
            THEN evaluation.r = Raise("ValueError", "Unknown function",
                                      evaluation.tree.body.func.id)
            ELSE evaluation.r =
                     Eval(evaluation.tree.body.args[
                              FirstFailing(evaluation.tree.body.args)]).r

\* the nodes _eval is called on for the operands of node: the operands of an
\* operator, the arguments of a call, the elements of a list or tuple
Operands(node) ==
    CASE node.t = "Expression" -> << node.body >>
      [] node.t = "BinOp" -> << node.left, node.right >>
      [] node.t = "UnaryOp" -> << node.operand >>
      [] node.t = "Call" -> node.args
      [] node.t \in {"List", "Tuple"} -> node.elts
      [] OTHER -> << >>

\* the nodes of a tree in the order of a left-to-right walk: a node, then the
\* nodes of its operands, first to last
RECURSIVE Preorder(_)
RECURSIVE PreorderAll(_)
PreorderAll(nodes) ==
    IF nodes = << >> THEN << >> ELSE Preorder(nodes[1]) \o PreorderAll(Tail(nodes))
Preorder(node) == << EvalEvent(node) >> \o PreorderAll(Operands(node))

\* the nodes the walk entered, in the order in which it entered them
EnteredNodes == SelectSeq(evaluation.log, LAMBDA e : e.ev = "eval")

\* the walk entered nodes in left-to-right order and skipped none: what it
\* entered is the beginning of the left-to-right order of the tree, and all
\* of it when the evaluation succeeded
InOrder ==
    /\ Len(EnteredNodes) <= Len(Preorder(evaluation.tree))
    /\ EnteredNodes = SubSeq(Preorder(evaluation.tree), 1, Len(EnteredNodes))
    /\ evaluation.r.st = "ok" => Len(EnteredNodes) = Len(Preorder(evaluation.tree))

\* the logs of the evaluations of the first k of nodes, one after the other
RECURSIVE LogsOf(_, _)
LogsOf(nodes, k) ==
    IF k = 0 THEN << >> ELSE LogsOf(nodes, k - 1) \o Eval(nodes[k]).log

\* node has an operand that fails, and the walk reported the failure of the
\* first one that does and evaluated nothing after it
FailFast(node) ==
    FirstFailing(Operands(node)) # 0
    /\ Eval(Operands(node)[FirstFailing(Operands(node))]).r.st = "raise" =>
        /\ evaluation.r = Eval(Operands(node)[FirstFailing(Operands(node))]).r
        /\ evaluation.log =
               << EvalEvent(evaluation.tree), EvalEvent(node) >>
                   \o LogsOf(Operands(node), FirstFailing(Operands(node)))

\* C25: evaluation is left to right and fail-fast.  The operands of an
\* operator, the arguments of a call and the elements of a list or tuple are
\* evaluated in order, all of them when nothing fails; the failure a call
\* reports is that of the first failing node in this order (of the left
\* operand when both operands fail), and no node after it is evaluated
C25_LeftToRightFailFast ==
    Ran /\ evaluation.tree # NoNode =>
        /\ InOrder
        /\ FailFast(evaluation.tree.body)

\* ------------------------------------------------------------------------
\* Invariants of the registry
\* ------------------------------------------------------------------------
\* C27: the id of every registered tool is the name its handler's instances
\* report, so that each definition get_openai_tools returned names a
\* registered tool, the one whose instance produced it
C27_IdIsName ==
    /\ \A j \in DOMAIN _tools :
           _tools[j].handler.constructs => _tools[j].id = _tools[j].handler.get_name
    /\ reply.op = "get_openai_tools" /\ reply.raised = "" =>
           \A i \in DOMAIN reply.result.items :
               /\ Has(_tools, reply.result.items[i].name)
               /\ reply.result.items[i].name \in DOMAIN _instances
               /\ _instances[reply.result.items[i].name].class.get_name
                      = reply.result.items[i].name

\* C28: the instance cache is consistent with the registrations: every id
\* with a cached instance is registered, and the instance is one of the
\* handler class that is registered for the id now; a registration discards
\* the instance cached for its id, so that no instance of a replaced handler
\* is kept or returned
C28_CacheConsistent ==
    [][/\ \A id \in DOMAIN _instances' :
              /\ Has(_tools', id)
              /\ _instances'[id].k = "instance"
              /\ _instances'[id].class = ConfigOf(_tools', id).handler
       /\ reply'.op = "register" /\ reply'.raised = "" =>
              reply'.args[1] \notin DOMAIN _instances'
       /\ reply'.op \in {"get_instance", "execute_tool"} /\ reply'.raised = ""
              /\ Has(_tools, reply'.args[1]) =>
              _instances'[reply'.args[1]].class = ConfigOf(_tools, reply'.args[1]).handler]_vars

\* the only registered id was registered again after a lookup, and the
\* instance cached for it now is a second one, of the class registered now
C28_Witness ==
    /\ Len(_tools) = 1
    /\ _tools[1].id \in DOMAIN _instances
    /\ _instances[_tools[1].id].serial = 2
    /\ _instances[_tools[1].id].class.name = "OtherTool"
    /\ _tools[1].handler.name = "OtherTool"

\* the keys of the registry
RegisteredIds(tools) == { tools[i].id : i \in DOMAIN tools }

\* the config an accepted register call was given
Written(args) ==
    [id |-> args[1], handler |-> HandlerNamed(args[2]),
     priority |-> args[3], enabled |-> args[4]]

\* the configs of the ids other than id
OtherConfigs(tools, id) == { tools[i] : i \in { j \in DOMAIN tools : tools[j].id # id } }

\* C29: last write wins and no tool is ever removed. Step by step: an accepted
\* register(id, ...) leaves id registered with exactly the handler, priority
\* and enabled flag of that call, whatever was stored or set for id before,
\* and leaves every other id's config alone; set_tool_enabled(id, v) changes
\* nothing but the flag of id, which becomes v when id is registered; every
\* other call and every rejected register leaves the registered tools as they
\* were; so the registered ids are those of the accepted register calls, and
\* no id is registered twice
C29_LastWriteWins ==
    [][/\ RegisteredIds(_tools) \subseteq RegisteredIds(_tools')
       /\ Cardinality(RegisteredIds(_tools')) = Len(_tools')
       /\ IF reply'.op = "register" /\ reply'.raised = ""
              THEN /\ RegisteredIds(_tools') = RegisteredIds(_tools) \cup {reply'.args[1]}
                   /\ ConfigOf(_tools', reply'.args[1]) = Written(reply'.args)
                   /\ OtherConfigs(_tools', reply'.args[1]) =
                          OtherConfigs(_tools, reply'.args[1])
          ELSE IF reply'.op = "set_tool_enabled"
              THEN /\ RegisteredIds(_tools') = RegisteredIds(_tools)
                   /\ OtherConfigs(_tools', reply'.args[1]) =
                          OtherConfigs(_tools, reply'.args[1])
                   /\ Has(_tools, reply'.args[1]) =>
                          ConfigOf(_tools', reply'.args[1]) =
                              [ConfigOf(_tools, reply'.args[1])
                                   EXCEPT !.enabled = reply'.args[2]]
          ELSE _tools' = _tools]_vars

\* an id that had been looked up under an earlier registration was registered
\* again, with another priority than the tool beside it, and is enabled
C29_Witness ==
    /\ reply.op = "register"
    /\ reply.raised = ""
    /\ Len(_tools) = 2
    /\ instantiated >= 1
    /\ DOMAIN _instances = {}
    /\ ConfigOf(_tools, reply.args[1]).enabled
    /\ ConfigOf(_tools, reply.args[1]).handler.name = "OtherTool"
    /\ \E i \in DOMAIN _tools : ~_tools[i].enabled

\* id is registered and its enabled flag is false
Disabled(tools, id) == Has(tools, id) /\ ~ConfigOf(tools, id).enabled

\* the handler class of every registered id among ids returns an instance
Constructible(tools, ids) ==
    \A j \in DOMAIN tools : tools[j].id \in ids => tools[j].handler.constructs

\* what the calls that take no account of the enabled flag did for the
\* disabled tool id: get_instance returned an instance of its handler class,
\* get_openai_tools with a list holding id returned that tool's definition at
\* the place id has among the registered ids of the list, list_tools_info
\* listed it as not enabled, execute_tool ran execute of its instance
Served(id) ==
    /\ reply'.op = "get_instance" /\ reply'.args = << id >> =>
           /\ reply'.raised = ""
           /\ reply'.result.k = "instance"
           /\ id \in DOMAIN _instances'
           /\ reply'.result = _instances'[id]
           /\ reply'.result.class = ConfigOf(_tools, id).handler
    /\ \A ids \in ToolIdLists :
           reply'.op = "get_openai_tools" /\ ~DefaultListing /\ reply'.args = << ids >>
               /\ (\E i \in DOMAIN ids : ids[i] = id) =>
               /\ reply'.raised = ""
               /\ Len(reply'.result.items) =
                      Cardinality({ k \in DOMAIN ids : Has(_tools, ids[k]) })
               /\ \A i \in DOMAIN ids :
                      ids[i] = id =>
                          reply'.result.items[
                              Cardinality({ k \in 1..i : Has(_tools, ids[k]) })] =
                              [type |-> "function",
                               name |-> ConfigOf(_tools, id).handler.get_name]
    /\ reply'.op = "list_tools_info" =>
           /\ reply'.raised = ""
           /\ \E i \in DOMAIN reply'.result.items :
                  /\ reply'.result.items[i].id = id
                  /\ ~reply'.result.items[i].enabled
                  /\ reply'.result.items[i].name = ConfigOf(_tools, id).handler.get_name
    /\ \A arguments \in Arguments :
           reply'.op = "execute_tool" /\ reply'.args = << id, arguments >> =>
               ExecutedOnce(id, arguments)

\* the call of the last step looks up these registered ids
LooksUp ==
    IF reply'.op = "list_tools_info" THEN RegisteredIds(_tools)
    ELSE IF reply'.op = "get_openai_tools" THEN
        IF DefaultListing THEN { }
        ELSE { reply'.args[1][i] : i \in DOMAIN reply'.args[1] }
    ELSE IF reply'.op \in {"get_instance", "execute_tool"} THEN { reply'.args[1] }
    ELSE { }

====
